---- MODULE Spec2Model ----
(***************************************************************************)
(* A model of the position core of nomaddo/cute: the Position type with    *)
(* its mutation primitives (pkg/cute/kif.go), the Board with its on-demand *)
(* derived positions, and the 256-bit position codec                       *)
(* (pkg/cute/position_pack256.go).                                         *)
(*                                                                         *)
(* Text is modelled as a sequence of one-character strings, so that        *)
(* parsing and formatting are computed character by character as the Go    *)
(* code does.  Go maps are reference values: the hands of a Position live  *)
(* in `heap` and a Position holds a reference to them.  Board cells are    *)
(* pointers to Piece values that the code never mutates through the        *)
(* pointer (setPiece always stores a fresh copy), so a cell holds the      *)
(* Piece value itself, and NoPiece stands for the nil pointer.             *)
(***************************************************************************)
EXTENDS Integers, Sequences, FiniteSets, TLC

VARIABLES
    heap,       \* hands maps by reference: [Refs -> [Color -> [Kinds -> Nat]]]
    pos,        \* the Position under test: [board, hands (a reference), turn]
    clone,      \* the Position returned by the last pos.Clone()
    hasClone,   \* whether Clone has been called
    err,        \* the error returned by the last ApplyMove call
    last,       \* the last ApplyMove call: its receiver and its move text
    calls,      \* number of ApplyMove calls made so far
    succ,       \* per Position, the number of ApplyMove calls that returned nil
    fail,       \* per Position, the number of ApplyMove calls that returned an error
    b,          \* the Board: [initial, moves, foulEnd]
    sfenRes,    \* result of the last Board.SFENAt call
    packRes,    \* result of the last PackPosition256 call
    unpackRes,  \* result of the last UnpackPosition256 call
    legal,      \* the last IsInCheck or IsLegalPosition call: receiver and result
    kif,        \* the record given to the decoder and what BoardFromKIF returned
    game,       \* result of the last BuildGameRecord call
    textRes,    \* the last Position written with ToSFEN and read back
    session,    \* the engine Session: commands sent, events queued, the Evaluate call
    graph       \* the goroutines and channels of cmd/graph

vars == <<heap, pos, clone, hasClone, err, last, calls, succ, fail, b, sfenRes, packRes,
          unpackRes, legal, kif, game, textRes, session, graph>>

----------------------------------------------------------------------------
(* Bounds of the model *)

\* the number of ApplyMove calls explored on one position
MaxCalls == 3

----------------------------------------------------------------------------
(* Characters and bytes *)

DigitChars == <<"0", "1", "2", "3", "4", "5", "6", "7", "8", "9">>
LowerChars == <<"a", "b", "c", "d", "e", "f", "g", "h", "i", "j", "k", "l", "m",
                "n", "o", "p", "q", "r", "s", "t", "u", "v", "w", "x", "y", "z">>
UpperChars == <<"A", "B", "C", "D", "E", "F", "G", "H", "I", "J", "K", "L", "M",
                "N", "O", "P", "Q", "R", "S", "T", "U", "V", "W", "X", "Y", "Z">>

IndexOf(seq, c) == CHOOSE i \in 1..Len(seq) : seq[i] = c
InSeq(seq, c) == \E i \in 1..Len(seq) : seq[i] = c

\* the byte value of an ASCII character
Ord(c) ==
    IF InSeq(DigitChars, c) THEN 47 + IndexOf(DigitChars, c)
    ELSE IF InSeq(LowerChars, c) THEN 96 + IndexOf(LowerChars, c)
    ELSE IF InSeq(UpperChars, c) THEN 64 + IndexOf(UpperChars, c)
    ELSE IF c = " " THEN 32
    ELSE IF c = "*" THEN 42
    ELSE IF c = "+" THEN 43
    ELSE IF c = "-" THEN 45
    ELSE IF c = "/" THEN 47
    ELSE 63

\* byte subtraction, wrapping as uint8 arithmetic does
ByteSub(x, y) == (x - y + 256) % 256

ToUpper(c) == IF InSeq(LowerChars, c) THEN UpperChars[IndexOf(LowerChars, c)] ELSE c
ToLower(c) == IF InSeq(UpperChars, c) THEN LowerChars[IndexOf(UpperChars, c)] ELSE c

\* fmt.Sprintf("%d", n) for n >= 0
RECURSIVE FormatInt(_)
FormatInt(n) ==
    IF n < 10 THEN <<DigitChars[n + 1]>>
    ELSE FormatInt(n \div 10) \o <<DigitChars[(n % 10) + 1]>>

----------------------------------------------------------------------------
(* Colors, pieces, positions *)

Black == 0
White == 1
Colors == {Black, White}

Kinds == {"P", "L", "N", "S", "G", "B", "R", "K"}

NoErr == "nil"

\* the nil *Piece
NoPiece == [kind |-> "", color |-> Black, promoted |-> FALSE]

Piece(k, c, pr) == [kind |-> k, color |-> c, promoted |-> pr]

EmptyHand == [k \in Kinds |-> 0]
EmptyHands == [c \in Colors |-> EmptyHand]
EmptyBoard == [r \in 0..8 |-> [f \in 0..8 |-> NoPiece]]

\* hand[kind] of a Go map: a missing key reads as 0
HandCount(hand, kind) == IF kind \in DOMAIN hand THEN hand[kind] ELSE 0

\* references to hands maps
RefInitial == "initial"
RefPos == "pos"
RefClone == "clone"
RefTemp == "temp"
Refs == {RefInitial, RefPos, RefClone, RefTemp}

\* a Position with its hands read through the heap
Deref(h, p) == [board |-> p.board, hands |-> h[p.hands], turn |-> p.turn]

Square(file, rank) == [file |-> file, rank |-> rank]

pieceAt(p, s) ==
    IF s.file < 1 \/ s.file > 9 \/ s.rank < 1 \/ s.rank > 9 THEN NoPiece
    ELSE p.board[s.rank - 1][s.file - 1]

setPiece(p, s, piece) ==
    IF s.file < 1 \/ s.file > 9 \/ s.rank < 1 \/ s.rank > 9 THEN p
    ELSE [p EXCEPT !.board[s.rank - 1][s.file - 1] = piece]

\* toggleTurn that only ever hands the turn to White
toggleTurnToWhite(p) == [p EXCEPT !.turn = White]

toggleTurn(p) == [p EXCEPT !.turn = IF p.turn = Black THEN White ELSE Black]

----------------------------------------------------------------------------
(* Canonical text (SFEN): parsing *)

\* strings.Split(text, sep) for a one-character separator: the pieces of
\* text between one separator (or the start) and the next (or the end).
\* SplitCuts holds the index before the text, the indices of the separators
\* in order, and the index after the text.
SplitCuts(text, sep) ==
    LET at == {i \in 1..Len(text) : text[i] = sep}
    IN  <<0>>
        \o [k \in 1..Cardinality(at) |->
               CHOOSE i \in at : Cardinality({j \in at : j < i}) = k - 1]
        \o <<Len(text) + 1>>

SplitAt(text, cuts) ==
    [k \in 1..(Len(cuts) - 1) |-> SubSeq(text, cuts[k] + 1, cuts[k + 1] - 1)]

Split(text, sep) == SplitAt(text, SplitCuts(text, sep))

\* strings.Fields(text): the maximal runs of non-space characters
Fields(text) == SelectSeq(Split(text, " "), LAMBDA f : Len(f) > 0)

\* the result of sfenPiece: the kind, or "" when the rune is no piece letter
sfenPiece(r) == IF r \in Kinds THEN r ELSE ""

IsDigit1to9(r) == Ord(r) >= Ord("1") /\ Ord(r) <= Ord("9")
IsDigit0to9(r) == Ord(r) >= Ord("0") /\ Ord(r) <= Ord("9")
IsLower(r) == Ord(r) >= Ord("a") /\ Ord(r) <= Ord("z")

\* one rank of parseBoardSFEN: the loop over the runes of rankText, from
\* rune i (1-based) with `file` the next file to fill
RECURSIVE parseRankSFEN(_, _, _, _, _)
parseRankSFEN(board, rankIndex, runes, i, file) ==
    IF i > Len(runes) THEN
        IF file # 0 THEN [board |-> board, err |-> "rank does not have 9 files"]
        ELSE [board |-> board, err |-> NoErr]
    ELSE IF IsDigit1to9(runes[i]) THEN
        parseRankSFEN(board, rankIndex, runes, i + 1, file - (Ord(runes[i]) - Ord("0")))
    ELSE
        LET promoted == runes[i] = "+"
            j == IF promoted THEN i + 1 ELSE i
        IN  IF j > Len(runes) THEN [board |-> board, err |-> "dangling promotion marker"]
            ELSE
              LET r0 == runes[j]
                  color == IF IsLower(r0) THEN White ELSE Black
                  r == IF IsLower(r0) THEN ToUpper(r0) ELSE r0
                  kind == sfenPiece(r)
              IN  IF kind = "" THEN [board |-> board, err |-> "unknown sfen piece"]
                  ELSE IF file < 1 THEN [board |-> board, err |-> "too many files in rank"]
                  ELSE parseRankSFEN(
                         [board EXCEPT ![rankIndex][file - 1] = Piece(kind, color, promoted)],
                         rankIndex, runes, j + 1, file - 1)

RECURSIVE parseRanksSFEN(_, _, _)
parseRanksSFEN(board, ranks, rankIndex) ==
    IF rankIndex > 8 THEN [board |-> board, err |-> NoErr]
    ELSE LET one == parseRankSFEN(board, rankIndex, ranks[rankIndex + 1], 1, 9)
         IN  IF one.err # NoErr THEN one
             ELSE parseRanksSFEN(one.board, ranks, rankIndex + 1)

parseBoardSFEN(text) ==
    LET ranks == Split(text, "/")
    IN  IF Len(ranks) # 9 THEN [board |-> EmptyBoard, err |-> "invalid board ranks"]
        ELSE parseRanksSFEN(EmptyBoard, ranks, 0)

RECURSIVE parseHandsFrom(_, _, _, _)
parseHandsFrom(hands, hand, i, count) ==
    IF i > Len(hand) THEN
        IF count # 0 THEN [hands |-> hands, err |-> "trailing hand count"]
        ELSE [hands |-> hands, err |-> NoErr]
    ELSE IF IsDigit0to9(hand[i]) THEN
        parseHandsFrom(hands, hand, i + 1, count * 10 + (Ord(hand[i]) - Ord("0")))
    ELSE
        LET n == IF count = 0 THEN 1 ELSE count
            color == IF IsLower(hand[i]) THEN White ELSE Black
            r == IF IsLower(hand[i]) THEN ToUpper(hand[i]) ELSE hand[i]
            piece == sfenPiece(r)
        IN  IF piece = "" THEN [hands |-> hands, err |-> "unknown hand piece"]
            ELSE parseHandsFrom([hands EXCEPT ![color][piece] = @ + n], hand, i + 1, 0)

parseHandsSFEN(hand) ==
    IF hand = <<"-">> THEN [hands |-> EmptyHands, err |-> NoErr]
    ELSE parseHandsFrom(EmptyHands, hand, 1, 0)

\* a Position value with its hands held directly (no reference)
PosValue(board, hands, turn) == [board |-> board, hands |-> hands, turn |-> turn]
ZeroPosition == PosValue(EmptyBoard, EmptyHands, Black)

parseSFENPosition(sfen) ==
    LET fields == Fields(sfen)
    IN  IF Len(fields) < 3 THEN [pos |-> ZeroPosition, err |-> "invalid sfen"]
        ELSE
          LET turn == IF fields[2] = <<"w">> THEN White ELSE Black
              bd == parseBoardSFEN(fields[1])
              hd == parseHandsSFEN(fields[3])
          IN  IF bd.err # NoErr THEN [pos |-> ZeroPosition, err |-> bd.err]
              ELSE IF hd.err # NoErr THEN [pos |-> ZeroPosition, err |-> hd.err]
              ELSE [pos |-> PosValue(bd.board, hd.hands, turn), err |-> NoErr]

standardSFEN ==
    <<"l","n","s","g","k","g","s","n","l","/",
      "1","r","5","b","1","/",
      "p","p","p","p","p","p","p","p","p","/",
      "9","/","9","/","9","/",
      "P","P","P","P","P","P","P","P","P","/",
      "1","B","5","R","1","/",
      "L","N","S","G","K","G","S","N","L",
      " ","b"," ","-"," ","1">>

----------------------------------------------------------------------------
(* Canonical text (SFEN): serialization *)

RECURSIVE rankToSFENFrom(_, _, _, _)
rankToSFENFrom(p, rank, file, empty) ==
    LET flush == IF empty > 0 THEN FormatInt(empty) ELSE <<>>
    IN  IF file < 1 THEN flush
        ELSE LET piece == p.board[rank - 1][file - 1]
             IN  IF piece = NoPiece THEN rankToSFENFrom(p, rank, file - 1, empty + 1)
                 ELSE LET text == IF piece.promoted THEN <<"+", piece.kind>>
                                  ELSE <<piece.kind>>
                          cased == IF piece.color = White
                                   THEN [i \in 1..Len(text) |-> ToLower(text[i])]
                                   ELSE text
                      IN  flush \o cased \o rankToSFENFrom(p, rank, file - 1, 0)

rankToSFEN(p, rank) == rankToSFENFrom(p, rank, 9, 0)

HandOrder == <<"R", "B", "G", "S", "N", "L", "P">>

RECURSIVE buildHandFrom(_, _, _)
buildHandFrom(hand, i, lower) ==
    IF i > Len(HandOrder) THEN <<>>
    ELSE LET piece == HandOrder[i]
             count == HandCount(hand, piece)
             one == IF count > 0
                    THEN (IF count > 1 THEN FormatInt(count) ELSE <<>>)
                         \o <<IF lower THEN ToLower(piece) ELSE piece>>
                    ELSE <<>>
         IN  one \o buildHandFrom(hand, i + 1, lower)

buildHands(black, white) == buildHandFrom(black, 1, FALSE) \o buildHandFrom(white, 1, TRUE)

RECURSIVE JoinRanks(_, _)
JoinRanks(p, rank) ==
    IF rank = 9 THEN rankToSFEN(p, rank)
    ELSE rankToSFEN(p, rank) \o <<"/">> \o JoinRanks(p, rank + 1)

\* p is a Position value (hands held directly)
ToSFEN(p, moveNumber) ==
    LET board == JoinRanks(p, 1)
        turn == IF p.turn = White THEN <<"w">> ELSE <<"b">>
        built == buildHands(p.hands[Black], p.hands[White])
        hand == IF built = <<>> THEN <<"-">> ELSE built
    IN  board \o <<" ">> \o turn \o <<" ">> \o hand \o <<" ">> \o FormatInt(moveNumber)

----------------------------------------------------------------------------
(* Moves in USI text and their application *)

UsiMove(from, to, drop, piece, promote) ==
    [from |-> from, to |-> to, drop |-> drop, piece |-> piece, promote |-> promote]
ZeroSquare == Square(0, 0)
ZeroMove == UsiMove(ZeroSquare, ZeroSquare, FALSE, "", FALSE)

\* the checks of parseUSISquare on the file and rank it has computed
squareAt(file, rank) ==
    IF file < 1 \/ file > 9 THEN [sq |-> ZeroSquare, err |-> "invalid file"]
    ELSE IF rank < 1 \/ rank > 9 THEN [sq |-> ZeroSquare, err |-> "invalid rank"]
    ELSE [sq |-> Square(file, rank), err |-> NoErr]

parseUSISquare(text) ==
    IF Len(text) # 2 THEN [sq |-> ZeroSquare, err |-> "invalid square"]
    ELSE squareAt(ByteSub(Ord(text[1]), Ord("0")), ByteSub(Ord(text[2]), Ord("a")) + 1)

\* parseUSIMove on the two parts of a text split at its first "*"
parseDrop(piece, to) ==
    IF Len(piece) # 1 THEN [move |-> ZeroMove, err |-> "invalid drop move"]
    ELSE IF to.err # NoErr THEN [move |-> ZeroMove, err |-> to.err]
    ELSE [move |-> UsiMove(ZeroSquare, to.sq, TRUE, ToUpper(piece[1]), FALSE),
          err |-> NoErr]

\* parseUSIMove on a text without "*", of four characters or more, its two
\* squares parsed
parseBoardMove(move, from, to) ==
    IF from.err # NoErr THEN [move |-> ZeroMove, err |-> from.err]
    ELSE IF to.err # NoErr THEN [move |-> ZeroMove, err |-> to.err]
    ELSE IF Len(move) > 4 /\ move[5] # "+"
         THEN [move |-> ZeroMove, err |-> "invalid promotion marker"]
    ELSE [move |-> UsiMove(from.sq, to.sq, FALSE, "", Len(move) > 4), err |-> NoErr]

parseUSIMove(move) ==
    IF InSeq(move, "*") THEN
        LET star == CHOOSE i \in 1..Len(move) :
                        move[i] = "*" /\ \A j \in 1..(i - 1) : move[j] # "*"
        IN  parseDrop(SubSeq(move, 1, star - 1),
                      parseUSISquare(SubSeq(move, star + 1, Len(move))))
    ELSE IF Len(move) < 4 THEN [move |-> ZeroMove, err |-> "invalid move"]
    ELSE parseBoardMove(move, parseUSISquare(SubSeq(move, 1, 2)),
                        parseUSISquare(SubSeq(move, 3, 4)))

\* The result of a method on *Position: the heap and the Position as the call
\* leaves them, and the error it returns.
Outcome(h, p, e) == [heap |-> h, pos |-> p, err |-> e]

\* applyDrop without the decrement of the hand count
applyDropKeepsCount(h, p, move) ==
    LET hand == h[p.hands][p.turn]
    IN  IF HandCount(hand, move.piece) = 0 THEN Outcome(h, p, "no piece in hand")
        ELSE IF pieceAt(p, move.to) # NoPiece THEN Outcome(h, p, "drop destination occupied")
        ELSE Outcome(h,
                     toggleTurn(setPiece(p, move.to, Piece(move.piece, p.turn, FALSE))),
                     NoErr)

applyDrop(h, p, move) ==
    LET hand == h[p.hands][p.turn]
    IN  IF HandCount(hand, move.piece) = 0 THEN Outcome(h, p, "no piece in hand")
        ELSE IF pieceAt(p, move.to) # NoPiece THEN Outcome(h, p, "drop destination occupied")
        ELSE Outcome([h EXCEPT ![p.hands][p.turn][move.piece] = @ - 1],
                     toggleTurn(setPiece(p, move.to, Piece(move.piece, p.turn, FALSE))),
                     NoErr)

\* applyMove with one of three slips: the check of the destination's color
\* left out, the captured piece credited to the opponent, or the check of the
\* moving kind before promotion left out
applyMoveSlip(h, p, move, slip) ==
    LET piece == pieceAt(p, move.from)
        captured == pieceAt(p, move.to)
        taker == IF slip = "credit" THEN (IF p.turn = Black THEN White ELSE Black)
                 ELSE p.turn
    IN  IF piece = NoPiece THEN Outcome(h, p, "no piece at source")
        ELSE IF piece.color # p.turn THEN Outcome(h, p, "moving opponent piece")
        ELSE IF slip # "own" /\ captured # NoPiece /\ captured.color = p.turn
             THEN Outcome(h, p, "capturing own piece")
        ELSE
          LET h1 == IF captured # NoPiece
                    THEN [h EXCEPT ![p.hands][taker][captured.kind] = @ + 1]
                    ELSE h
              p1 == setPiece(p, move.from, NoPiece)
          IN  IF slip # "promote" /\ move.promote /\ piece.kind \in {"K", "G"}
              THEN Outcome(h1, p1, "cannot promote king or gold")
              ELSE LET moved == IF move.promote THEN [piece EXCEPT !.promoted = TRUE]
                                ELSE piece
                   IN  Outcome(h1, toggleTurn(setPiece(p1, move.to, moved)), NoErr)

applyMoveTakesOwn(h, p, move) == applyMoveSlip(h, p, move, "own")
applyMoveCreditsOpponent(h, p, move) == applyMoveSlip(h, p, move, "credit")
applyMovePromotesAny(h, p, move) == applyMoveSlip(h, p, move, "promote")

applyMove(h, p, move) ==
    LET piece == pieceAt(p, move.from)
        captured == pieceAt(p, move.to)
    IN  IF piece = NoPiece THEN Outcome(h, p, "no piece at source")
        ELSE IF piece.color # p.turn THEN Outcome(h, p, "moving opponent piece")
        ELSE IF captured # NoPiece /\ captured.color = p.turn
             THEN Outcome(h, p, "capturing own piece")
        ELSE
          LET h1 == IF captured # NoPiece
                    THEN [h EXCEPT ![p.hands][p.turn][captured.kind] = @ + 1]
                    ELSE h
              p1 == setPiece(p, move.from, NoPiece)
          IN  IF move.promote /\ piece.kind \in {"K", "G"}
              THEN Outcome(h1, p1, "cannot promote king or gold")
              ELSE LET moved == IF move.promote THEN [piece EXCEPT !.promoted = TRUE]
                                ELSE piece
                   IN  Outcome(h1, toggleTurn(setPiece(p1, move.to, moved)), NoErr)

\* ApplyMove once the text is parsed
applyParsed(h, p, parsed) ==
    IF parsed.err # NoErr THEN Outcome(h, p, parsed.err)
    ELSE IF parsed.move.drop THEN applyDrop(h, p, parsed.move)
    ELSE applyMove(h, p, parsed.move)

ApplyMove(h, p, move) == applyParsed(h, p, parseUSIMove(move))

\* Clone as a copy of the struct: the hands maps are shared with the original
CloneSharesHands(h, p, ref) ==
    [heap |-> h,
     pos |-> [board |-> p.board, hands |-> p.hands, turn |-> p.turn]]

\* p.Clone() with the new hands maps allocated at reference `ref`
Clone(h, p, ref) ==
    [heap |-> [h EXCEPT ![ref] = [c \in Colors |-> [k \in Kinds |-> h[p.hands][c][k]]]],
     pos |-> [board |-> [r \in 0..8 |-> [f \in 0..8 |-> p.board[r][f]]],
              hands |-> ref,
              turn |-> p.turn]]

----------------------------------------------------------------------------
(* The 256-bit codec: code books, bit writer, bit reader *)

CodeSpec(kind, bits, bitLen, isEmpty) ==
    [kind |-> kind, bits |-> bits, bitLen |-> bitLen, isEmpty |-> isEmpty]

\* bits are the Go binary literals: 0b01 = 1, 0b0011 = 3, 0b1011 = 11, ...
boardCodes ==
    << CodeSpec("", 0, 1, TRUE),
       CodeSpec("P", 1, 2, FALSE),
       CodeSpec("L", 3, 4, FALSE),
       CodeSpec("N", 11, 4, FALSE),
       CodeSpec("S", 7, 4, FALSE),
       CodeSpec("G", 15, 5, FALSE),
       CodeSpec("B", 31, 6, FALSE),
       CodeSpec("R", 63, 6, FALSE) >>

handCodes ==
    << CodeSpec("P", 0, 1, FALSE),
       CodeSpec("L", 1, 3, FALSE),
       CodeSpec("N", 5, 3, FALSE),
       CodeSpec("S", 3, 3, FALSE),
       CodeSpec("G", 7, 4, FALSE),
       CodeSpec("B", 15, 5, FALSE),
       CodeSpec("R", 31, 5, FALSE) >>

RECURSIVE MaxBitLen(_, _)
MaxBitLen(codes, i) ==
    IF i > Len(codes) THEN 0
    ELSE LET rest == MaxBitLen(codes, i + 1)
         IN  IF codes[i].bitLen > rest THEN codes[i].bitLen ELSE rest

\* byLen[len][bits] as the set of entries; a later entry with the same length
\* and bits overwrites an earlier one
buildCodeBook(codes) ==
    [entries |-> { codes[i] : i \in { i \in 1..Len(codes) :
                       \A j \in (i + 1)..Len(codes) :
                           ~(codes[j].bitLen = codes[i].bitLen /\ codes[j].bits = codes[i].bits) } },
     maxLen |-> MaxBitLen(codes, 1)]

boardCodeBook == buildCodeBook(boardCodes)
handCodeBook == buildCodeBook(handCodes)

isPromotable(kind) == kind \in {"P", "L", "N", "S", "B", "R"}

\* the entries the two loops of findCode can return
findCodeMatches(book, kind, isHand) ==
    { code \in book.entries :
        code.kind = kind \/ (~isHand /\ code.isEmpty /\ kind = "") }

findCode(book, kind, isHand) ==
    LET found == findCodeMatches(book, kind, isHand)
    IN  IF found = {} THEN [code |-> CodeSpec("", 0, 0, FALSE), ok |-> FALSE]
        ELSE [code |-> CHOOSE code \in found : TRUE, ok |-> TRUE]

ZeroWords == [w \in 0..3 |-> [o \in 0..63 |-> 0]]

RECURSIVE Pow2(_)
Pow2(n) == IF n = 0 THEN 1 ELSE 2 * Pow2(n - 1)

\* (value >> i) & 1
BitOf(value, i) == (value \div Pow2(i)) % 2

\* A bitWriter256 with the error its last operation returned; once an
\* operation has failed the caller returns, so later operations do nothing.
NewWriter == [words |-> ZeroWords, pos |-> 0, err |-> NoErr]

writeBit(w, bit) ==
    IF w.err # NoErr THEN w
    ELSE IF w.pos >= 256 THEN [w EXCEPT !.err = "bitstream overflow"]
    ELSE [w EXCEPT !.words[w.pos \div 64][w.pos % 64] = IF bit # 0 THEN 1 ELSE @,
                   !.pos = w.pos + 1]

RECURSIVE writeBitsFrom(_, _, _, _)
writeBitsFrom(w, value, bitLen, i) ==
    IF i >= bitLen \/ w.err # NoErr THEN w
    ELSE writeBitsFrom(writeBit(w, BitOf(value, i)), value, bitLen, i + 1)

writeBits(w, value, bitLen) == writeBitsFrom(w, value, bitLen, 0)

writeCode(w, book, kind, isHand) ==
    IF w.err # NoErr THEN w
    ELSE LET found == findCode(book, kind, isHand)
         IN  IF ~found.ok THEN [w EXCEPT !.err = "unknown piece code"]
             ELSE writeBits(w, found.code.bits, found.code.bitLen)

writeColor(w, color) == writeBit(w, IF color = White THEN 1 ELSE 0)

\* A bitReader256 operation returns the reader, the value read and the error.
Read(r, val, e) == [r |-> r, val |-> val, err |-> e]
NewReader(words) == [words |-> words, pos |-> 0]

readBit(r) ==
    IF r.pos >= 256 THEN Read(r, 0, "bitstream underflow")
    ELSE Read([r EXCEPT !.pos = r.pos + 1], r.words[r.pos \div 64][r.pos % 64], NoErr)

RECURSIVE readBitsFrom(_, _, _, _)
readBitsFrom(r, bitLen, i, value) ==
    IF i >= bitLen THEN Read(r, value, NoErr)
    ELSE LET one == readBit(r)
         IN  IF one.err # NoErr THEN Read(one.r, 0, one.err)
             ELSE readBitsFrom(one.r, bitLen, i + 1, value + one.val * Pow2(i))

readBits(r, bitLen) == readBitsFrom(r, bitLen, 0, 0)

NoCode == CodeSpec("", 0, 0, FALSE)

RECURSIVE readCodeFrom(_, _, _, _)
readCodeFrom(r, book, length, value) ==
    IF length > book.maxLen THEN Read(r, NoCode, "invalid code")
    ELSE LET one == readBit(r)
         IN  IF one.err # NoErr THEN Read(one.r, NoCode, one.err)
             ELSE LET v == value + one.val * Pow2(length - 1)
                      hit == { e \in book.entries : e.bitLen = length /\ e.bits = v }
                  IN  IF hit # {} THEN Read(one.r, CHOOSE e \in hit : TRUE, NoErr)
                      ELSE readCodeFrom(one.r, book, length + 1, v)

readCode(r, book) == readCodeFrom(r, book, 1, 0)

readColor(r) ==
    LET one == readBit(r)
    IN  IF one.err # NoErr THEN Read(one.r, Black, one.err)
        ELSE Read(one.r, IF one.val = 1 THEN White ELSE Black, NoErr)

----------------------------------------------------------------------------
(* The 256-bit codec: PackPosition256 and UnpackPosition256 *)

pieceAtIndex(p, idx) == p.board[idx \div 9][idx % 9]

\* pos.board[r][f] = piece panics (index out of range) when idx/9 > 8
setPieceAtIndex(p, idx, piece) ==
    IF idx \div 9 > 8 THEN [pos |-> p, panic |-> TRUE]
    ELSE [pos |-> [p EXCEPT !.board[idx \div 9][idx % 9] = piece], panic |-> FALSE]

Kings(black, white, e) == [black |-> black, white |-> white, err |-> e]

RECURSIVE kingSquaresFrom(_, _, _, _)
kingSquaresFrom(p, idx, black, white) ==
    IF idx > 80 THEN
        IF black = -1 \/ white = -1 THEN Kings(0, 0, "missing king")
        ELSE Kings(black, white, NoErr)
    ELSE LET piece == p.board[idx \div 9][idx % 9]
         IN  IF piece = NoPiece \/ piece.kind # "K"
             THEN kingSquaresFrom(p, idx + 1, black, white)
             ELSE IF piece.color = Black
                  THEN IF black # -1 THEN Kings(0, 0, "multiple black kings")
                       ELSE kingSquaresFrom(p, idx + 1, idx, white)
                  ELSE IF white # -1 THEN Kings(0, 0, "multiple white kings")
                       ELSE kingSquaresFrom(p, idx + 1, black, idx)

kingSquares(p) == kingSquaresFrom(p, 0, -1, -1)

\* one iteration of the loop over the 81 squares of PackPosition256
packSquare(w, p, sq, blackKing, whiteKing) ==
    IF w.err # NoErr THEN w
    ELSE IF sq = blackKing \/ sq = whiteKing THEN w
    ELSE IF pieceAtIndex(p, sq) = NoPiece THEN writeCode(w, boardCodeBook, "", FALSE)
    ELSE IF pieceAtIndex(p, sq).kind = "K" THEN [w EXCEPT !.err = "unexpected king"]
    ELSE IF isPromotable(pieceAtIndex(p, sq).kind)
         THEN writeBit(writeColor(writeCode(w, boardCodeBook, pieceAtIndex(p, sq).kind, FALSE),
                                  pieceAtIndex(p, sq).color),
                       IF pieceAtIndex(p, sq).promoted THEN 1 ELSE 0)
    ELSE writeColor(writeCode(w, boardCodeBook, pieceAtIndex(p, sq).kind, FALSE),
                    pieceAtIndex(p, sq).color)

\* the iterations lo..hi of that loop, in order (split in halves to keep the
\* evaluation shallow); packBoardRest is the second half, entered once the
\* first has been written
RECURSIVE packBoardRange(_, _, _, _, _, _)
RECURSIVE packBoardRest(_, _, _, _, _, _)
packBoardRange(w, p, lo, hi, blackKing, whiteKing) ==
    IF lo > hi THEN w
    ELSE IF lo = hi THEN packSquare(w, p, lo, blackKing, whiteKing)
    ELSE packBoardRest(packBoardRange(w, p, lo, (lo + hi) \div 2, blackKing, whiteKing),
                       p, (lo + hi) \div 2 + 1, hi, blackKing, whiteKing)

packBoardRest(left, p, lo, hi, blackKing, whiteKing) ==
    IF left.err # NoErr THEN left
    ELSE packBoardRange(left, p, lo, hi, blackKing, whiteKing)

PackHandColors == <<Black, White>>
PackHandKinds == <<"P", "L", "N", "S", "G", "B", "R">>

\* one unit of a kind held by a color, as the innermost loop writes it
packHandUnit(w, color, kind) ==
    IF isPromotable(kind)
    THEN writeBit(writeColor(writeCode(w, handCodeBook, kind, TRUE), color), 0)
    ELSE writeColor(writeCode(w, handCodeBook, kind, TRUE), color)

\* the loops over colors, kinds and units held of PackPosition256: ci and ki
\* index PackHandColors and PackHandKinds, i counts the units written
RECURSIVE packHandsFrom(_, _, _, _, _)
packHandsFrom(w, p, ci, ki, i) ==
    IF ci > Len(PackHandColors) \/ w.err # NoErr THEN w
    ELSE IF ki > Len(PackHandKinds) THEN packHandsFrom(w, p, ci + 1, 1, 0)
    ELSE IF i >= HandCount(p.hands[PackHandColors[ci]], PackHandKinds[ki])
         THEN packHandsFrom(w, p, ci, ki + 1, 0)
    ELSE packHandsFrom(packHandUnit(w, PackHandColors[ci], PackHandKinds[ki]),
                       p, ci, ki, i + 1)

\* The result of PackPosition256: the Packed256 words, the error, and the
\* writer position when it returned.
Packed(words, e, bits) == [words |-> words, err |-> e, bits |-> bits]

\* the end of PackPosition256, on the writer as the loops leave it
packReturn(w) ==
    IF w.err # NoErr THEN Packed(ZeroWords, w.err, w.pos)
    ELSE IF w.pos # 256 THEN Packed(ZeroWords, "packed length is not 256 bits", w.pos)
    ELSE Packed(w.words, NoErr, w.pos)

\* PackPosition256 from the two King indices on: w holds the turn bit and ks
\* is what kingSquares returned
packFromKings(w, p, ks) ==
    IF w.err # NoErr THEN Packed(ZeroWords, w.err, w.pos)
    ELSE IF ks.err # NoErr THEN Packed(ZeroWords, ks.err, w.pos)
    ELSE packReturn(
           packHandsFrom(
             packBoardRange(writeBits(writeBits(w, ks.black, 7), ks.white, 7),
                            p, 0, 80, ks.black, ks.white),
             p, 1, 1, 0))

\* p is a Position value (hands held directly)
PackPosition256(p) ==
    packFromKings(writeBit(NewWriter, IF p.turn = White THEN 1 ELSE 0), p, kingSquares(p))

\* The state of UnpackPosition256 inside its loops.
Decoding(r, p, e) == [r |-> r, pos |-> p, err |-> e]

\* one iteration of the loop over the 81 squares of UnpackPosition256, in
\* four steps: the code is read, then the color, then the promotion bit of a
\* promotable kind, then the piece is stored
unpackPiece(d, sq, kind, color, promo) ==
    IF promo.err # NoErr THEN Decoding(promo.r, d.pos, promo.err)
    ELSE Decoding(promo.r,
                  setPieceAtIndex(d.pos, sq, Piece(kind, color, promo.val = 1)).pos,
                  NoErr)

unpackColor(d, sq, kind, color) ==
    IF color.err # NoErr THEN Decoding(color.r, d.pos, color.err)
    ELSE unpackPiece(d, sq, kind, color.val,
                     IF isPromotable(kind) THEN readBit(color.r)
                     ELSE Read(color.r, 0, NoErr))

unpackCode(d, sq, code) ==
    IF code.err # NoErr THEN Decoding(code.r, d.pos, code.err)
    ELSE IF code.val.isEmpty THEN Decoding(code.r, d.pos, NoErr)
    ELSE unpackColor(d, sq, code.val.kind, readColor(code.r))

unpackSquare(d, sq, blackKing, whiteKing) ==
    IF d.err # NoErr THEN d
    ELSE IF sq = blackKing \/ sq = whiteKing THEN d
    ELSE unpackCode(d, sq, readCode(d.r, boardCodeBook))

\* the iterations lo..hi of that loop, in order; unpackBoardRest is the
\* second half, entered once the first has been read
RECURSIVE unpackBoardRange(_, _, _, _, _)
RECURSIVE unpackBoardRest(_, _, _, _, _)
unpackBoardRange(d, lo, hi, blackKing, whiteKing) ==
    IF lo > hi THEN d
    ELSE IF lo = hi THEN unpackSquare(d, lo, blackKing, whiteKing)
    ELSE unpackBoardRest(unpackBoardRange(d, lo, (lo + hi) \div 2, blackKing, whiteKing),
                         (lo + hi) \div 2 + 1, hi, blackKing, whiteKing)

unpackBoardRest(left, lo, hi, blackKing, whiteKing) ==
    IF left.err # NoErr THEN left
    ELSE unpackBoardRange(left, lo, hi, blackKing, whiteKing)

\* one iteration of the loop `for reader.pos < 256` of UnpackPosition256, in
\* the same steps; nothing once the loop has ended or the function has
\* returned an error
unpackHandPiece(d, kind, color, promo) ==
    IF promo.err # NoErr THEN Decoding(promo.r, d.pos, promo.err)
    ELSE IF promo.val # 0 THEN Decoding(promo.r, d.pos, "promoted piece in hand")
    ELSE Decoding(promo.r, [d.pos EXCEPT !.hands[color][kind] = @ + 1], NoErr)

unpackHandColor(d, kind, color) ==
    IF color.err # NoErr THEN Decoding(color.r, d.pos, color.err)
    ELSE unpackHandPiece(d, kind, color.val,
                         IF isPromotable(kind) THEN readBit(color.r)
                         ELSE Read(color.r, 0, NoErr))

unpackHandCode(d, code) ==
    IF code.err # NoErr THEN Decoding(code.r, d.pos, code.err)
    ELSE unpackHandColor(d, code.val.kind, readColor(code.r))

unpackHandEntry(d) ==
    IF d.err # NoErr \/ d.r.pos >= 256 THEN d
    ELSE unpackHandCode(d, readCode(d.r, handCodeBook))

\* n iterations of that loop; every iteration reads at least one bit, so the
\* loop ends within 256 iterations
RECURSIVE unpackHandEntries(_, _)
RECURSIVE unpackHandRest(_, _)
unpackHandEntries(d, n) ==
    IF n = 0 \/ d.err # NoErr \/ d.r.pos >= 256 THEN d
    ELSE IF n = 1 THEN unpackHandEntry(d)
    ELSE unpackHandRest(unpackHandEntries(d, n \div 2), n - n \div 2)

unpackHandRest(left, n) ==
    IF left.err # NoErr THEN left
    ELSE unpackHandEntries(left, n)

unpackHands(r, p) == unpackHandEntries(Decoding(r, p, NoErr), 256)

\* The result of UnpackPosition256: the Position value and the error it
\* returns, or panic = TRUE when it aborts instead of returning, and the
\* reader position when it stopped.
Unpacked(p, e, panic, read) == [pos |-> p, err |-> e, panic |-> panic, read |-> read]

\* the end of UnpackPosition256, on the decoding as the hands loop leaves it
unpackReturn(hd) ==
    IF hd.err # NoErr THEN Unpacked(ZeroPosition, hd.err, FALSE, hd.r.pos)
    ELSE Unpacked(hd.pos, NoErr, FALSE, hd.r.pos)

\* UnpackPosition256 from the hands loop on: bd is the decoding as the loop
\* over the squares leaves it
unpackFromHands(bd) ==
    IF bd.err # NoErr THEN Unpacked(ZeroPosition, bd.err, FALSE, bd.r.pos)
    ELSE unpackReturn(unpackHands(bd.r, bd.pos))

\* UnpackPosition256 once the Kings are placed: placed is what the second
\* setPieceAtIndex leaves
unpackFromSquares(r, blackKing, whiteKing, placed) ==
    IF placed.panic THEN Unpacked(ZeroPosition, NoErr, TRUE, r.pos)
    ELSE unpackFromHands(
           unpackBoardRange(Decoding(r, placed.pos, NoErr), 0, 80, blackKing, whiteKing))

\* placed is what the first setPieceAtIndex leaves
unpackWhiteKing(r, blackKing, whiteKing, placed) ==
    IF placed.panic THEN Unpacked(ZeroPosition, NoErr, TRUE, r.pos)
    ELSE unpackFromSquares(r, blackKing, whiteKing,
                           setPieceAtIndex(placed.pos, whiteKing, Piece("K", White, FALSE)))

\* unpackFromKings without the comparison of the two King indices
unpackFromKingsUnchecked(turn, blackKing, whiteKing) ==
    IF whiteKing.err # NoErr
    THEN Unpacked(ZeroPosition, whiteKing.err, FALSE, whiteKing.r.pos)
    ELSE unpackWhiteKing(whiteKing.r, blackKing.val, whiteKing.val,
                         setPieceAtIndex(PosValue(EmptyBoard, EmptyHands, turn),
                                         blackKing.val, Piece("K", Black, FALSE)))

\* UnpackPosition256 once the turn bit and the two King indices are read
unpackFromKings(turn, blackKing, whiteKing) ==
    IF whiteKing.err # NoErr
    THEN Unpacked(ZeroPosition, whiteKing.err, FALSE, whiteKing.r.pos)
    ELSE IF blackKing.val = whiteKing.val
         THEN Unpacked(ZeroPosition, "kings share square", FALSE, whiteKing.r.pos)
    ELSE unpackWhiteKing(whiteKing.r, blackKing.val, whiteKing.val,
                         setPieceAtIndex(PosValue(EmptyBoard, EmptyHands, turn),
                                         blackKing.val, Piece("K", Black, FALSE)))

unpackFromBlackKing(turn, blackKing) ==
    IF blackKing.err # NoErr
    THEN Unpacked(ZeroPosition, blackKing.err, FALSE, blackKing.r.pos)
    ELSE unpackFromKings(turn, blackKing, readBits(blackKing.r, 7))

unpackFromTurn(turnBit) ==
    IF turnBit.err # NoErr THEN Unpacked(ZeroPosition, turnBit.err, FALSE, turnBit.r.pos)
    ELSE unpackFromBlackKing(IF turnBit.val = 1 THEN White ELSE Black,
                             readBits(turnBit.r, 7))

UnpackPosition256(words) == unpackFromTurn(readBit(NewReader(words)))

----------------------------------------------------------------------------
(* Board.SFENAt *)

\* The result of SFENAt: the heap as the call leaves it, the text, and the
\* error: errMove is the N of the wrapping "move N: ..." (0 when the error is
\* not wrapped) and err the error itself.
SfenResult(h, text, errMove, e) == [heap |-> h, text |-> text, errMove |-> errMove, err |-> e]

\* The state of the replay loop of SFENAt.
Replaying(h, c, i, e) == [heap |-> h, pos |-> c, i |-> i, err |-> e]

\* the loop `for i := 0; i < move; i++` of SFENAt from index i (0-based), on
\* the clone c; sfenReplayed is the loop body once ApplyMove has returned
RECURSIVE sfenReplay(_, _, _, _, _)
RECURSIVE sfenReplayed(_, _, _, _)
sfenReplay(h, c, moves, i, move) ==
    IF i >= move THEN Replaying(h, c, i, NoErr)
    ELSE sfenReplayed(ApplyMove(h, c, moves[i + 1]), moves, i, move)

sfenReplayed(one, moves, i, move) ==
    IF one.err # NoErr THEN Replaying(one.heap, one.pos, i, one.err)
    ELSE sfenReplay(one.heap, one.pos, moves, i + 1, move)

\* SFENAt on the clone c it has made
sfenOfClone(c, moves, move) == sfenReplay(c.heap, c.pos, moves, 0, move)

\* what SFENAt returns once its loop has ended.  The clone's hands are
\* allocated at RefTemp and are unreachable once the call has returned.
sfenReturn(played, move) ==
    IF played.err # NoErr
    THEN SfenResult([played.heap EXCEPT ![RefTemp] = EmptyHands], <<>>,
                    played.i + 1, played.err)
    ELSE SfenResult([played.heap EXCEPT ![RefTemp] = EmptyHands],
                    ToSFEN(Deref(played.heap, played.pos), move + 1), 0, NoErr)

\* SFENAt with the range check off by one: the last ply is refused
SFENAtShort(h, board, move) ==
    IF move < 0 \/ move >= Len(board.moves)
    THEN SfenResult(h, <<>>, 0, "move out of range")
    ELSE sfenReturn(sfenOfClone(Clone(h, board.initial, RefTemp), board.moves, move), move)

\* board.SFENAt(move)
SFENAt(h, board, move) ==
    IF move < 0 \/ move > Len(board.moves)
    THEN SfenResult(h, <<>>, 0, "move out of range")
    ELSE sfenReturn(sfenOfClone(Clone(h, board.initial, RefTemp), board.moves, move), move)

----------------------------------------------------------------------------
(* The inputs explored *)

\* the number of moves in a Board's move list
MaxBoardMoves == 3

\* move texts given to ApplyMove: pawn pushes of either side, a promoting
\* capture, a recapture, drops (one in lower case, one on an occupied square),
\* promotions of a Gold with and without capture, a capture of the King, a
\* move from a square to itself, a move from an empty square, a short text
Moves ==
    { <<"7","g","7","f">>,
      <<"3","c","3","d">>,
      <<"8","h","2","b","+">>,
      <<"3","a","2","b">>,
      <<"B","*","5","e">>,
      <<"b","*","1","a">>,
      <<"4","i","4","h","+">>,
      <<"6","i","2","b","+">>,
      <<"8","h","5","a">>,
      <<"7","g","7","g">>,
      <<"5","e","4","d">>,
      <<"7","g">> }

\* move texts a decoded record may hold in a Board's move list
BoardMoves ==
    { <<"7","g","7","f">>,
      <<"3","c","3","d">>,
      <<"8","h","2","b","+">>,
      <<"3","a","2","b">>,
      <<"B","*","5","e">>,
      <<"4","i","4","h","+">> }

BoardMoveLists == UNION { [1..n -> BoardMoves] : n \in 0..MaxBoardMoves }

\* the bit of a Packed256 altered before it is given to UnpackPosition256
\* (-1: none): bits of the two King indices, of the board codes, and the last
FlipBits == {-1, 5, 10, 14, 20, 255}

FlipBit(words, i) ==
    IF i < 0 THEN words
    ELSE [words EXCEPT ![i \div 64][i % 64] = 1 - @]

\* a Packed256 whose White King index (bits 8..14) is overwritten with its
\* Black King index (bits 1..7)
SameKings(words) ==
    [words EXCEPT ![0] = [o \in 0..63 |-> IF o \in 8..14 THEN words[0][o - 7] ELSE words[0][o]]]

StandardPosition == parseSFENPosition(standardSFEN).pos

\* a Position value stored with its hands at reference ref
AtRef(p, ref) == [board |-> p.board, hands |-> ref, turn |-> p.turn]

NoSfenRes == [called |-> FALSE, move |-> 0, text |-> <<>>, errMove |-> 0, err |-> NoErr]
NoCall == [target |-> "", move |-> <<>>]
NoPackRes == [called |-> FALSE, input |-> ZeroPosition, moveNumber |-> 0,
              words |-> ZeroWords, err |-> NoErr, bits |-> 0]
NoRecord == [record |-> [header |-> "", entries |-> <<>>, terminal |-> <<>>, clock |-> FALSE,
                        tail |-> <<>>],
             loaded |-> FALSE, errLine |-> 0, err |-> NoErr]
NoGame == [called |-> FALSE, engineOk |-> TRUE, moveCount |-> 0, evals |-> 0,
           moveEvals |-> <<>>, applied |-> 0, result |-> "", errMove |-> 0, err |-> NoErr,
           sent |-> <<>>, cache |-> <<>>, steps |-> <<>>, builds |-> 0, before |-> <<>>,
           engine |-> [replies |-> <<>>, doneAt |-> -1]]
NoTextRes == [called |-> FALSE, moveNumber |-> 0, of |-> ZeroPosition, text |-> <<>>,
             pos |-> ZeroPosition, err |-> NoErr]
NoLegalCall == [call |-> "", color |-> Black, pos |-> ZeroPosition, result |-> FALSE,
                err |-> NoErr]
NoUnpackRes == [called |-> FALSE, flip |-> -1, sameKings |-> FALSE, pos |-> ZeroPosition,
                err |-> NoErr, panic |-> FALSE, read |-> 0]

----------------------------------------------------------------------------
(* The notation decoder (KIF): move tokens.  A rune outside ASCII is        *)
(* written as the name of its reading:                                      *)
(*   same U+540C   not U+4E0D   nari U+6210   uchi U+6253   wsp U+3000      *)
(*   to U+3068   uma U+99AC   ryu U+9F8D   tatsu U+7ADC   ou U+738B         *)
(*   gyoku U+7389   hi U+98DB   kaku U+89D2   kin U+91D1   gin U+9280       *)
(*   kei U+6842   kyo U+9999   fu U+6B69                                    *)
(*   ichi .. kyuu: U+4E00 U+4E8C U+4E09 U+56DB U+4E94 U+516D U+4E03 U+516B  *)
(*   U+4E5D   w1 .. w9: U+FF11 .. U+FF19                                    *)
(*   tou U+6295  ryou U+4E86  chuu U+4E2D  dan U+65AD  ji U+6301            *)
(*   shou U+5C06  gi U+68CB  sen U+5343  nichi U+65E5  te U+624B            *)
(*   tsu U+8A70  mi U+307F  ki U+5207  re U+308C  ma U+8CA0  ke U+3051      *)
(*   han U+53CD  soku U+5247  ka U+52DD  chi U+3061  nyuu U+5165            *)
(*   sengen U+5BA3  gen U+8A00  ai U+5408  wari U+5272  hira U+5E73         *)
(*   colon U+FF1A  ochi U+843D  go U+5F8C  ban U+756A  hen U+5909           *)
(*   bake U+5316                                                            *)

\* unicode.IsSpace, on the runes of the model
IsSpace(r) == r \in {" ", "wsp"}

\* strings.TrimSpace
TrimSpace(text) ==
    LET keep == { i \in 1..Len(text) : ~IsSpace(text[i]) }
    IN  IF keep = {} THEN <<>>
        ELSE SubSeq(text, CHOOSE i \in keep : \A j \in keep : i <= j,
                          CHOOSE i \in keep : \A j \in keep : j <= i)

\* strings.HasPrefix
HasPrefix(text, prefix) ==
    Len(text) >= Len(prefix) /\ SubSeq(text, 1, Len(prefix)) = prefix

\* strings.Index, 1-based: 0 when sub does not occur in text
Index(text, sub) ==
    LET at == { i \in 1..(Len(text) - Len(sub) + 1) : SubSeq(text, i, i + Len(sub) - 1) = sub }
    IN  IF at = {} THEN 0 ELSE CHOOSE i \in at : \A j \in at : i <= j

\* strings.Contains
Contains(text, sub) == Index(text, sub) # 0

\* text without the n runes from index i on
Cut(text, i, n) == SubSeq(text, 1, i - 1) \o SubSeq(text, i + n, Len(text))

\* strings.Replace(text, sub, "", 1)
RemoveFirst(text, sub) ==
    IF Contains(text, sub) THEN Cut(text, Index(text, sub), Len(sub)) ELSE text

\* the tokens isTerminalMove knows: resignation, abort, jishogi, repetition,
\* checkmate, time-up, illegal-move win, illegal-move loss, entering-king win,
\* declared win
TerminalTokens ==
    { <<"tou", "ryou">>, <<"chuu", "dan">>, <<"ji", "shou", "gi">>, <<"sen", "nichi", "te">>,
      <<"tsu", "mi">>, <<"ki", "re", "ma", "ke">>, <<"han", "soku", "ka", "chi">>,
      <<"han", "soku", "ma", "ke">>, <<"nyuu", "gyoku", "ka", "chi">>,
      <<"ka", "chi", "sengen", "gen">> }

isTerminalMove(token) == token \in TerminalTokens

WideDigits == <<"w1", "w2", "w3", "w4", "w5", "w6", "w7", "w8", "w9">>
RankRunes == <<"ichi", "ni", "san", "shi", "go", "roku", "nana", "hachi", "kyuu">>

\* parseFileRune and parseRankRune: the number, or 0 for "not ok"
parseFileRune(r) ==
    IF InSeq(DigitChars, r) /\ r # "0" THEN IndexOf(DigitChars, r) - 1
    ELSE IF InSeq(WideDigits, r) THEN IndexOf(WideDigits, r)
    ELSE 0

parseRankRune(r) == IF InSeq(RankRunes, r) THEN IndexOf(RankRunes, r) ELSE 0

\* the leftmost match of fromSquareRe, \((\d)(\d)\): its index, or 0
fromSquareIndex(text) ==
    LET at == { i \in 1..(Len(text) - 3) :
                  /\ text[i] = "(" /\ InSeq(DigitChars, text[i + 1])
                  /\ InSeq(DigitChars, text[i + 2]) /\ text[i + 3] = ")" }
    IN  IF at = {} THEN 0 ELSE CHOOSE i \in at : \A j \in at : i <= j

\* parseFromSquare: file, rank and whether a source square was found
parseFromSquare(text) ==
    LET i == fromSquareIndex(text)
        file == IF i = 0 THEN 0 ELSE IndexOf(DigitChars, text[i + 1]) - 1
        rank == IF i = 0 THEN 0 ELSE IndexOf(DigitChars, text[i + 2]) - 1
    IN  IF i = 0 \/ file < 1 \/ rank < 1
        THEN [file |-> 0, rank |-> 0, hasFrom |-> FALSE]
        ELSE [file |-> file, rank |-> rank, hasFrom |-> TRUE]

\* fromSquareRe.ReplaceAllString(text, "")
RECURSIVE removeFromSquares(_)
removeFromSquares(text) ==
    IF fromSquareIndex(text) = 0 THEN text
    ELSE SubSeq(text, 1, fromSquareIndex(text) - 1)
         \o removeFromSquares(SubSeq(text, fromSquareIndex(text) + 4, Len(text)))

\* pieceDefs, in the order of the table
pieceDefs ==
    << [name |-> <<"nari", "gin">>, letter |-> "S", promoted |-> FALSE, forcePromote |-> TRUE],
       [name |-> <<"nari", "kei">>, letter |-> "N", promoted |-> FALSE, forcePromote |-> TRUE],
       [name |-> <<"nari", "kyo">>, letter |-> "L", promoted |-> FALSE, forcePromote |-> TRUE],
       [name |-> <<"nari", "fu">>, letter |-> "P", promoted |-> FALSE, forcePromote |-> TRUE],
       [name |-> <<"to">>, letter |-> "P", promoted |-> TRUE, forcePromote |-> FALSE],
       [name |-> <<"uma">>, letter |-> "B", promoted |-> TRUE, forcePromote |-> FALSE],
       [name |-> <<"ryu">>, letter |-> "R", promoted |-> TRUE, forcePromote |-> FALSE],
       [name |-> <<"tatsu">>, letter |-> "R", promoted |-> TRUE, forcePromote |-> FALSE],
       [name |-> <<"ou">>, letter |-> "K", promoted |-> FALSE, forcePromote |-> FALSE],
       [name |-> <<"gyoku">>, letter |-> "K", promoted |-> FALSE, forcePromote |-> FALSE],
       [name |-> <<"hi">>, letter |-> "R", promoted |-> FALSE, forcePromote |-> FALSE],
       [name |-> <<"kaku">>, letter |-> "B", promoted |-> FALSE, forcePromote |-> FALSE],
       [name |-> <<"kin">>, letter |-> "G", promoted |-> FALSE, forcePromote |-> FALSE],
       [name |-> <<"gin">>, letter |-> "S", promoted |-> FALSE, forcePromote |-> FALSE],
       [name |-> <<"kei">>, letter |-> "N", promoted |-> FALSE, forcePromote |-> FALSE],
       [name |-> <<"kyo">>, letter |-> "L", promoted |-> FALSE, forcePromote |-> FALSE],
       [name |-> <<"fu">>, letter |-> "P", promoted |-> FALSE, forcePromote |-> FALSE] >>

\* parsePiece: the first entry of pieceDefs whose name the text begins with
parsePiece(text) ==
    LET hits == { i \in 1..Len(pieceDefs) : HasPrefix(TrimSpace(text), pieceDefs[i].name) }
    IN  IF hits = {}
        THEN [letter |-> "", promoted |-> FALSE, forcePromote |-> FALSE, err |-> "unknown piece"]
        ELSE [letter |-> pieceDefs[CHOOSE i \in hits : \A j \in hits : i <= j].letter,
              promoted |-> pieceDefs[CHOOSE i \in hits : \A j \in hits : i <= j].promoted,
              forcePromote |-> pieceDefs[CHOOSE i \in hits : \A j \in hits : i <= j].forcePromote,
              err |-> NoErr]

\* formatSquare: the file as a decimal number and the rank as a letter
formatSquare(s) == FormatInt(s.file) \o <<LowerChars[s.rank]>>

\* what parseKIFMoveToken returns: the move text, the destination (hasDest:
\* the pointer is not nil), the end of the moves, the error
Token(usi, dest, hasDest, end, e) ==
    [usi |-> usi, dest |-> dest, hasDest |-> hasDest, end |-> end, err |-> e]

\* tokenOfPiece with the no-promotion marker ignored
tokenOfPieceIgnoresNoPromote(dest, from, noPromote, promote, drop, piece) ==
    IF piece.err # NoErr THEN Token(<<>>, ZeroSquare, FALSE, FALSE, piece.err)
    ELSE IF drop
         THEN IF piece.promoted
              THEN Token(<<>>, ZeroSquare, FALSE, FALSE, "cannot drop promoted piece")
              ELSE Token(<<piece.letter, "*">> \o formatSquare(dest), dest, TRUE, FALSE, NoErr)
    ELSE IF ~from.hasFrom
         THEN Token(<<>>, ZeroSquare, FALSE, FALSE, "missing source square")
    ELSE Token(formatSquare(Square(from.file, from.rank)) \o formatSquare(dest)
                 \o (IF promote \/ piece.forcePromote THEN <<"+">> ELSE <<>>),
               dest, TRUE, FALSE, NoErr)

\* parseKIFMoveToken once the markers are taken out of the text and the
\* piece is parsed
tokenOfPiece(dest, from, noPromote, promote, drop, piece) ==
    IF piece.err # NoErr THEN Token(<<>>, ZeroSquare, FALSE, FALSE, piece.err)
    ELSE IF drop
         THEN IF piece.promoted
              THEN Token(<<>>, ZeroSquare, FALSE, FALSE, "cannot drop promoted piece")
              ELSE Token(<<piece.letter, "*">> \o formatSquare(dest), dest, TRUE, FALSE, NoErr)
    ELSE IF ~from.hasFrom
         THEN Token(<<>>, ZeroSquare, FALSE, FALSE, "missing source square")
    ELSE Token(formatSquare(Square(from.file, from.rank)) \o formatSquare(dest)
                 \o (IF (promote \/ piece.forcePromote) /\ ~noPromote THEN <<"+">> ELSE <<>>),
               dest, TRUE, FALSE, NoErr)

\* parseKIFMoveToken once the source square is taken out of the text: the
\* no-promotion marker, the promotion marker and the drop marker are looked
\* for, and taken out, in this order
tokenOfMarkers(dest, from, work) ==
    tokenOfPiece(dest, from,
                 Contains(work, <<"not", "nari">>),
                 Contains(RemoveFirst(work, <<"not", "nari">>), <<"nari">>),
                 Contains(RemoveFirst(RemoveFirst(work, <<"not", "nari">>), <<"nari">>),
                          <<"uchi">>),
                 parsePiece(RemoveFirst(RemoveFirst(RemoveFirst(work, <<"not", "nari">>),
                                                    <<"nari">>), <<"uchi">>)))

\* parseKIFMoveToken once the destination is known
tokenOfDest(dest, work) ==
    tokenOfMarkers(dest, parseFromSquare(work),
                   IF parseFromSquare(work).hasFrom THEN removeFromSquares(work) ELSE work)

\* strings.TrimLeft(text, " 　")
RECURSIVE TrimLeftSpaces(_)
TrimLeftSpaces(text) ==
    IF text # <<>> /\ IsSpace(text[1]) THEN TrimLeftSpaces(Tail(text)) ELSE text

\* parseKIFMoveToken(token, prevDest); prev is [dest, hasDest]
parseKIFMoveToken(token, prev) ==
    IF isTerminalMove(token) THEN Token(<<>>, ZeroSquare, FALSE, TRUE, NoErr)
    ELSE IF HasPrefix(TrimSpace(token), <<"same">>)
         THEN IF ~prev.hasDest
              THEN Token(<<>>, ZeroSquare, FALSE, FALSE,
                         "same-square move without previous destination")
              ELSE tokenOfDest(prev.dest, TrimSpace(TrimLeftSpaces(Tail(TrimSpace(token)))))
    ELSE IF Len(TrimSpace(token)) < 2
         THEN Token(<<>>, ZeroSquare, FALSE, FALSE, "invalid move token")
    ELSE IF parseFileRune(TrimSpace(token)[1]) = 0
         THEN Token(<<>>, ZeroSquare, FALSE, FALSE, "invalid destination file")
    ELSE IF parseRankRune(TrimSpace(token)[2]) = 0
         THEN Token(<<>>, ZeroSquare, FALSE, FALSE, "invalid destination rank")
    ELSE tokenOfDest(Square(parseFileRune(TrimSpace(token)[1]),
                            parseRankRune(TrimSpace(token)[2])),
                     TrimSpace(SubSeq(TrimSpace(token), 3, Len(TrimSpace(token)))))

----------------------------------------------------------------------------
(* The notation decoder (KIF): the lines of a record.  Of a line the model  *)
(* keeps what the two line patterns read: the number it begins with (0 when *)
(* it begins with none), the text after the number, and whether a           *)
(* parenthesised clock follows the text.  moveLineRe matches a numbered     *)
(* line with a clock, terminalLineRe every numbered line.                   *)

Line(num, text, clock) == [num |-> num, text |-> text, clock |-> clock]

moveLineMatch(line) == line.num > 0 /\ line.clock
terminalLineMatch(line) == line.num > 0

\* what parseKIFMoves returns: the moves, or the error of line errLine
Decoded(moves, errLine, e) == [moves |-> moves, errLine |-> errLine, err |-> e]

\* the state of the loop of parseKIFMoves: moves, prevDest (prev), whether
\* the loop was left at a terminal token (end), and the error (of line
\* errLine) that ended it
parseKIFMovesStart ==
    [moves |-> <<>>, prev |-> [dest |-> ZeroSquare, hasDest |-> FALSE], end |-> FALSE,
     errLine |-> 0, err |-> NoErr]

\* parseKIFMovesToken that keeps the destination with file and rank swapped
parseKIFMovesTokenSwaps(st, i, tok) ==
    IF tok.err # NoErr THEN [st EXCEPT !.errLine = i, !.err = tok.err]
    ELSE IF tok.end THEN [st EXCEPT !.end = TRUE]
    ELSE [st EXCEPT !.moves = Append(@, tok.usi),
                    !.prev = [dest |-> Square(tok.dest.rank, tok.dest.file),
                              hasDest |-> TRUE]]

\* the body of the loop of parseKIFMoves for line i once parseKIFMoveToken
\* has returned
parseKIFMovesToken(st, i, tok) ==
    IF tok.err # NoErr THEN [st EXCEPT !.errLine = i, !.err = tok.err]
    ELSE IF tok.end THEN [st EXCEPT !.end = TRUE]
    ELSE [st EXCEPT !.moves = Append(@, tok.usi),
                    !.prev = [dest |-> tok.dest, hasDest |-> TRUE]]

\* the body of the loop of parseKIFMoves for line i
parseKIFMovesLine(line, i, st) ==
    IF ~moveLineMatch(line) \/ TrimSpace(line.text) = <<>> THEN st
    ELSE parseKIFMovesToken(st, i, parseKIFMoveToken(TrimSpace(line.text), st.prev))

\* the loop of parseKIFMoves from line i on
RECURSIVE parseKIFMovesFrom(_, _, _)
parseKIFMovesFrom(lines, i, st) ==
    IF i > Len(lines) \/ st.end \/ st.err # NoErr THEN st
    ELSE parseKIFMovesFrom(lines, i + 1, parseKIFMovesLine(lines[i], i, st))

\* parseKIFMoves once the loop has ended
parseKIFMovesReturn(st) ==
    IF st.err # NoErr THEN Decoded(<<>>, st.errLine, st.err)
    ELSE Decoded(st.moves, 0, NoErr)

parseKIFMoves(lines) == parseKIFMovesReturn(parseKIFMovesFrom(lines, 1, parseKIFMovesStart))

\* findTerminalMove: the first terminal token among the numbered lines and
\* the count of numbered lines up to it
RECURSIVE findTerminalMoveFrom(_, _, _)
findTerminalMoveFrom(lines, i, ply) ==
    IF i > Len(lines) THEN [terminal |-> <<>>, ply |-> 0]
    ELSE IF ~(moveLineMatch(lines[i]) \/ terminalLineMatch(lines[i]))
            \/ TrimSpace(lines[i].text) = <<>>
         THEN findTerminalMoveFrom(lines, i + 1, ply)
    ELSE IF isTerminalMove(TrimSpace(lines[i].text))
         THEN [terminal |-> TrimSpace(lines[i].text), ply |-> ply + 1]
    ELSE findTerminalMoveFrom(lines, i + 1, ply + 1)

findTerminalMove(lines) == findTerminalMoveFrom(lines, 1, 0)

\* winnerFromPly with the parity turned round
winnerFromPlyEven(ply) == IF ply % 2 = 0 THEN "sente_win" ELSE "gote_win"

winnerFromPly(ply) == IF ply % 2 = 1 THEN "sente_win" ELSE "gote_win"

resultFromTerminal(token, ply) ==
    IF token = <<"chuu", "dan">> THEN "abort"
    ELSE IF token \in {<<"ji", "shou", "gi">>, <<"sen", "nichi", "te">>} THEN "draw"
    ELSE IF token \in {<<"han", "soku", "ka", "chi">>, <<"tsu", "mi">>} THEN winnerFromPly(ply)
    ELSE IF token \in {<<"tou", "ryou">>, <<"ki", "re", "ma", "ke">>,
                       <<"han", "soku", "ma", "ke">>}
         THEN winnerFromPly(ply + 1)
    ELSE "unknown"

\* parseResult: the result (the reason it also returns is the token)
parseResult(lines) ==
    IF findTerminalMove(lines).terminal = <<>> THEN "unknown"
    ELSE resultFromTerminal(findTerminalMove(lines).terminal, findTerminalMove(lines).ply)

\* isFoulEnd that knows the illegal-move-loss token only
isFoulEndOfLoss(lines) == findTerminalMove(lines).terminal = <<"han", "soku", "ma", "ke">>

isFoulEnd(lines) ==
    findTerminalMove(lines).terminal \in {<<"han", "soku", "ka", "chi">>,
                                          <<"han", "soku", "ma", "ke">>}

\* collectBoardLines: the lines between two "|"
collectBoardLines(lines) ==
    SelectSeq(lines, LAMBDA line :
        /\ line.num = 0
        /\ HasPrefix(TrimSpace(line.text), <<"|">>)
        /\ TrimSpace(line.text)[Len(TrimSpace(line.text))] = "|")

\* the first loop of initialPositionFromKIF: a line that begins with the
\* handicap label and holds the even-handicap marker
hasEvenHandicap(lines) ==
    \E i \in 1..Len(lines) :
        /\ lines[i].num = 0
        /\ HasPrefix(TrimSpace(lines[i].text), <<"te", "ai", "wari">>)
        /\ Contains(TrimSpace(lines[i].text), <<"hira", "te">>)

\* initialPositionFromKIF that lets the turn line of the record decide the
\* side to move of the standard layout
initialPositionFromKIFTurnLine(lines) ==
    IF hasEvenHandicap(lines)
    THEN IF \E i \in 1..Len(lines) : HasPrefix(TrimSpace(lines[i].text), <<"go", "te", "ban">>)
         THEN parseSFENPosition(SubSeq(standardSFEN, 1, 58) \o <<"w">> \o SubSeq(standardSFEN, 60, Len(standardSFEN)))
         ELSE parseSFENPosition(standardSFEN)
    ELSE [pos |-> ZeroPosition, err |-> "no board definition found"]

\* initialPositionFromKIF.  The model does not follow parseBoardLines,
\* parseTurn and parseHandsCounts: its records without the even-handicap
\* marker hold no board lines, and initialPositionFromKIF then returns the
\* error of its first check.
initialPositionFromKIF(lines) ==
    IF hasEvenHandicap(lines) THEN parseSFENPosition(standardSFEN)
    ELSE [pos |-> ZeroPosition, err |-> "no board definition found"]

\* what BoardFromKIF returns: the Board, or the error (of line errLine)
Loaded(initial, moves, foulEnd, errLine, e) ==
    [initial |-> initial, moves |-> moves, foulEnd |-> foulEnd, errLine |-> errLine, err |-> e]

\* BoardFromKIF once initialPositionFromKIF and parseKIFMoves have returned
boardOfMoves(lines, init, decoded) ==
    IF init.err # NoErr THEN Loaded(ZeroPosition, <<>>, FALSE, 0, init.err)
    ELSE IF decoded.err # NoErr
         THEN Loaded(ZeroPosition, <<>>, FALSE, decoded.errLine, decoded.err)
    ELSE Loaded(init.pos, decoded.moves, isFoulEnd(lines), 0, NoErr)

BoardFromKIF(lines) == boardOfMoves(lines, initialPositionFromKIF(lines), parseKIFMoves(lines))

----------------------------------------------------------------------------
(* The engine session (Session.Evaluate and what it reads).  A line of the  *)
(* engine is kept as its fields (strings.Fields of the line); an event      *)
(* carries, besides what ParseLine stores, the number of the search that    *)
(* wrote its line (`of`), which the program does not see.                   *)

\* Score: the zero value and flipScore
Score(kind, value) == [kind |-> kind, value |-> value]
ZeroScore == Score("", 0)
flipScore(score) == [score EXCEPT !.value = -@]

\* strconv.Atoi, on the number texts of the model
NumberTexts == ("35" :> 35) @@ ("-120" :> -120) @@ ("+3" :> 3) @@ ("0" :> 0)
Atoi(text) ==
    IF text \in DOMAIN NumberTexts THEN [value |-> NumberTexts[text], ok |-> TRUE]
    ELSE [value |-> 0, ok |-> FALSE]

\* parseInfoScore that takes every kind of score
parseInfoScoreAnyKind(fields, i) ==
    IF ~Atoi(fields[i + 3]).ok THEN [score |-> ZeroScore, ok |-> FALSE]
    ELSE [score |-> Score(fields[i + 2], Atoi(fields[i + 3]).value), ok |-> TRUE]

\* parseInfoScore once the field "score" is found at index i (0-based)
parseInfoScoreAt(fields, i) ==
    IF ~Atoi(fields[i + 3]).ok THEN [score |-> ZeroScore, ok |-> FALSE]
    ELSE IF fields[i + 2] \notin {"cp", "mate"} THEN [score |-> ZeroScore, ok |-> FALSE]
    ELSE [score |-> Score(fields[i + 2], Atoi(fields[i + 3]).value), ok |-> TRUE]

\* the loop of parseInfoScore from index i (0-based) on
RECURSIVE parseInfoScoreFrom(_, _)
parseInfoScoreFrom(fields, i) ==
    IF i + 2 >= Len(fields) THEN [score |-> ZeroScore, ok |-> FALSE]
    ELSE IF fields[i + 1] # "score" THEN parseInfoScoreFrom(fields, i + 1)
    ELSE parseInfoScoreAt(fields, i)

parseInfoScore(fields) == parseInfoScoreFrom(fields, 0)

\* ParseLine: the event of a line that begins with "info", with "bestmove"
\* (and a move), or with another word
ParseLine(fields, of) ==
    [type |-> IF fields[1] = "info" THEN "EventInfo"
              ELSE IF fields[1] = "bestmove" THEN "EventBestMove"
              ELSE "EventUnknown",
     raw |-> IF fields[1] = "bestmove" THEN <<>> ELSE fields,
     move |-> IF fields[1] = "bestmove" THEN fields[2] ELSE "",
     of |-> of]

\* what Evaluate returned: the call, the score, the move, the error, the
\* events the call took from the channel, and the searches the score and
\* the move come from
Returned(s, score, move, e, scoreOf, moveOf) ==
    [call |-> s.call, turn |-> s.turn, score |-> score, move |-> move, err |-> e,
     seen |-> s.seen, scoreOf |-> scoreOf, moveOf |-> moveOf]

\* the switch of Evaluate on an event that keeps the first score it sees
evaluateEventFirstScore(s, event, parsed) ==
    IF event.type = "EventInfo" /\ parsed.ok /\ ~s.haveScore
    THEN [s EXCEPT !.score = parsed.score, !.haveScore = TRUE, !.scoreOf = event.of]
    ELSE IF event.type = "EventBestMove"
    THEN [s EXCEPT !.pc = "idle",
                   !.ret = IF ~s.haveScore
                           THEN Returned(s, ZeroScore, event.move,
                                         "no score in engine output", 0, event.of)
                           ELSE Returned(s, IF s.turn = "w" THEN flipScore(s.score)
                                            ELSE s.score,
                                         event.move, NoErr, s.scoreOf, event.of)]
    ELSE s

\* the switch of Evaluate on an event the channel gave; s.seen holds the
\* event already, parsed is parseInfoScore of its line
evaluateEvent(s, event, parsed) ==
    IF event.type = "EventInfo"
    THEN IF parsed.ok
         THEN [s EXCEPT !.score = parsed.score, !.haveScore = TRUE, !.scoreOf = event.of]
         ELSE s
    ELSE IF event.type = "EventBestMove"
    THEN [s EXCEPT !.pc = "idle",
                   !.ret = IF ~s.haveScore
                           THEN Returned(s, ZeroScore, event.move,
                                         "no score in engine output", 0, event.of)
                           ELSE Returned(s, IF s.turn = "w" THEN flipScore(s.score)
                                            ELSE s.score,
                                         event.move, NoErr, s.scoreOf, event.of)]
    ELSE s

\* Evaluate leaves its loop with the error nextEvent returned
evaluateError(s, e) ==
    [s EXCEPT !.pc = "idle", !.ret = Returned(s, ZeroScore, "", e, 0, 0)]

\* the Session after StartSession and Handshake: nothing sent, no event
\* queued, no Evaluate call made.  stdin holds the commands the engine has
\* not read, search is the number of the search the engine runs (0: none),
\* infos the number of info lines it has written, events the channel of the
\* reader goroutine; pc, call, turn, score, haveScore are the Evaluate call
\* in progress, ret is what the last call returned (until the next call).
NoReturn ==
    [call |-> 0, turn |-> "b", score |-> ZeroScore, move |-> "", err |-> NoErr,
     seen |-> <<>>, scoreOf |-> 0, moveOf |-> 0]
NoSession ==
    [stdin |-> <<>>, sent |-> <<>>, search |-> 0, infos |-> 0, events |-> <<>>,
     pc |-> "idle", call |-> 0, turn |-> "b", score |-> ZeroScore, haveScore |-> FALSE,
     scoreOf |-> 0, seen |-> <<>>, cancelled |-> 0, ret |-> NoReturn]

\* Evaluate on a Session nobody else uses and whose earlier calls all
\* returned on their bestmove: the loop of Evaluate over the lines the
\* engine writes for this search; when the lines end without a bestmove
\* line the engine has closed its stdout
RECURSIVE evaluateFrom(_, _)
evaluateFrom(s, lines) ==
    IF s.pc = "idle" THEN s.ret
    ELSE IF lines = <<>> THEN evaluateError(s, "engine stdout closed").ret
    ELSE evaluateFrom(evaluateEvent([s EXCEPT !.seen = Append(@, ParseLine(Head(lines), s.call))],
                                    ParseLine(Head(lines), s.call),
                                    parseInfoScore(ParseLine(Head(lines), s.call).raw)),
                      Tail(lines))

\* score, _, err := session.Evaluate(ctx, sfen, moveTimeMs), fields being
\* strings.Fields(sfen)
Evaluate(fields, lines) ==
    evaluateFrom([NoSession EXCEPT !.pc = "wait", !.call = 1,
                                   !.turn = IF Len(fields) >= 2 /\ fields[2] = <<"w">>
                                            THEN "w" ELSE "b"],
                 lines)

\* what BuildGameRecord returns: the fields MoveCount, Result and MoveEvals
\* of the GameRecord (evals: the length of MoveEvals), or the error (of move
\* errMove); with them the number of ApplyMove calls made, the positions
\* sent to the engine, the cache as the call leaves it, and for every move
\* evaluated its position, its key and its score.  The names and ratings
\* of the players are left out.
Game(moveCount, moveEvals, result, run) ==
    [moveCount |-> moveCount, evals |-> Len(moveEvals), moveEvals |-> moveEvals,
     applied |-> run.applied, result |-> result, errMove |-> run.errMove, err |-> run.err,
     sent |-> run.sent, cache |-> run.cache, steps |-> run.steps]

\* the state of the loop of BuildGameRecord: pos (heap and pos), scores and
\* cache, the error that ends the loop, and what the model records of the
\* loop
Run(h, p, entries, errMove, e) ==
    [heap |-> h, pos |-> p, applied |-> 0, scores |-> <<>>, sent |-> <<>>,
     cache |-> entries, steps |-> <<>>, errMove |-> errMove, err |-> e]

\* evals = append(evals, MoveEval{Ply: int32(i + 1), ScoreType: score.Kind,
\* ScoreValue: int32(score.Value)})
MoveEvals(scores) ==
    [i \in 1..Len(scores) |->
        [ply |-> i, scoreType |-> scores[i].kind, scoreValue |-> scores[i].value]]

\* Cache only up to first 30 moves
CacheLimit == 30

\* the key that keeps the move number
cacheKeyOfText(sfen, fields) == sfen

\* key := strings.Join(fields[:3], " ") when sfen has three fields or more,
\* sfen otherwise
cacheKey(sfen, fields) ==
    IF Len(fields) >= 3 THEN fields[1] \o <<" ">> \o fields[2] \o <<" ">> \o fields[3]
    ELSE sfen

\* an engine, as BuildGameRecord meets it: the lines it writes in answer to
\* the n-th position sent (the last reply is repeated), and the index of
\* the move before which the context is found done (-1: never)
Engine(replies, doneAt) == [replies |-> replies, doneAt |-> doneAt]
EngineReply(engine, n) ==
    IF n <= Len(engine.replies) THEN engine.replies[n]
    ELSE engine.replies[Len(engine.replies)]

\* the body of the loop of BuildGameRecord for the move of index i
\* (0-based) once Evaluate has returned
gameEvaluated(one, i, run, key, answer) ==
    IF answer.err # NoErr THEN [run EXCEPT !.errMove = i + 1, !.err = answer.err]
    ELSE [run EXCEPT !.heap = one.heap, !.pos = one.pos,
                     !.scores = Append(@, answer.score),
                     !.steps = Append(@, [pos |-> Deref(one.heap, one.pos), key |-> key,
                                          score |-> answer.score]),
                     !.cache = IF i < CacheLimit THEN (key :> answer.score) @@ @ ELSE @]

\* the body once the key is made
gameLookedUp(one, i, engine, run, fields, key) ==
    IF key \in DOMAIN run.cache
    THEN [run EXCEPT !.heap = one.heap, !.pos = one.pos,
                     !.scores = Append(@, run.cache[key]),
                     !.steps = Append(@, [pos |-> Deref(one.heap, one.pos), key |-> key,
                                          score |-> run.cache[key]])]
    ELSE gameEvaluated(one, i, [run EXCEPT !.sent = Append(@, [index |-> i, key |-> key])],
                       key, Evaluate(fields, EngineReply(engine, Len(run.sent) + 1)))

\* the body once ToSFEN has returned
gameKeyed(one, i, engine, run, sfen) ==
    gameLookedUp(one, i, engine, run, Fields(sfen), cacheKey(sfen, Fields(sfen)))

\* the body once ApplyMove has returned
gameReplayed(one, i, engine, run) ==
    IF one.err # NoErr THEN [run EXCEPT !.errMove = i + 1, !.err = one.err]
    ELSE gameKeyed(one, i, engine, run, ToSFEN(Deref(one.heap, one.pos), i + 1))

\* the body of the loop of BuildGameRecord for the move of index i
gameMove(run, move, i, engine) ==
    IF engine.doneAt = i THEN [run EXCEPT !.err = "context canceled"]
    ELSE gameReplayed(ApplyMove(run.heap, run.pos, move), i, engine,
                      [run EXCEPT !.applied = @ + 1])

\* the loop of BuildGameRecord over the moves from index i (0-based) on
RECURSIVE gameReplay(_, _, _, _)
gameReplay(run, moves, i, engine) ==
    IF i >= Len(moves) \/ run.err # NoErr THEN run
    ELSE gameReplay(gameMove(run, moves[i + 1], i, engine), moves, i + 1, engine)

\* BuildGameRecord once the loop has ended
gameOfRun(moves, run) ==
    IF run.err # NoErr THEN Game(0, <<>>, "", run)
    ELSE Game(Len(moves), MoveEvals(run.scores), "", run)

\* BuildGameRecord once the moves are cut and initialPositionFromKIF has
\* returned; the position is local to the call
gameOfPosition(lines, moves, init, engine, cache) ==
    IF init.err # NoErr
    THEN Game(0, <<>>, "", Run([r \in Refs |-> EmptyHands], ZeroPosition, cache, 0, init.err))
    ELSE gameOfRun(moves,
                   gameReplay(Run([r \in Refs |-> init.pos.hands], AtRef(init.pos, RefTemp),
                                  cache, 0, NoErr),
                              moves, 0, engine))

\* BuildGameRecord once parseKIFMoves has returned
gameOfMoves(lines, decoded, engine, cache) ==
    IF decoded.err # NoErr
    THEN Game(0, <<>>, "", Run([r \in Refs |-> EmptyHands], ZeroPosition, cache, 0, decoded.err))
    ELSE IF Len(decoded.moves) = 0
    THEN Game(0, <<>>, "",
              Run([r \in Refs |-> EmptyHands], ZeroPosition, cache, 0, "no moves found"))
    ELSE gameOfPosition(lines,
                        IF isFoulEnd(lines) /\ Len(decoded.moves) > 0
                        THEN SubSeq(decoded.moves, 1, Len(decoded.moves) - 1)
                        ELSE decoded.moves,
                        initialPositionFromKIF(lines), engine, cache)

\* BuildGameRecord: the record gets its result once the loop has ended
gameResult(lines, record) ==
    IF record.err # NoErr THEN record ELSE [record EXCEPT !.result = parseResult(lines)]

\* BuildGameRecord(ctx, path, session, moveTimeMs, cache); a nil cache is
\* the empty one
BuildGameRecord(lines, engine, cache) ==
    gameResult(lines, gameOfMoves(lines, parseKIFMoves(lines), engine, cache))

\* the engine that answers every position with a centipawn score, and the
\* engine that closes its stdout
ScoredReply == << <<"info", "depth", "2", "score", "cp", "35">>, <<"bestmove", "7g7f">> >>
EngineOf(engineOk) == IF engineOk THEN Engine(<<ScoredReply>>, -1) ELSE Engine(<< <<>> >>, -1)

\* cmd/graph main: the goroutines and channels of the pipeline.  main is the
\* position of the main goroutine, next the number of files enqueued of
\* files, w the position of each worker goroutine, results the number of
\* records in the results channel (capacity workers), writer the position
\* of the goroutine calling WriteParquet, writeErr the content of the
\* writeErr channel (capacity 1), errs the number of errors in errCh
\* (capacity workers), stop whether stopRequested is closed
NoGraph ==
    [main |-> "idle", files |-> 0, next |-> 0, workers |-> 0, w |-> <<>>,
     jobsClosed |-> FALSE, results |-> 0, resultsClosed |-> FALSE,
     writer |-> "idle", written |-> 0, writeErr |-> "empty", errs |-> 0,
     processed |-> 0, stop |-> FALSE]

\* workers := *processNum; if workers <= 0 { workers = 1 };
\* if workers > len(files) { workers = len(files) }
workersOf(processNum, files) ==
    LET atLeastOne == IF processNum <= 0 THEN 1 ELSE processNum
    IN  IF atLeastOne > files THEN files ELSE atLeastOne

\* the state of main once the channels are made, the writer goroutine is
\* started and the worker goroutines are started (no --resume)
startGraph(processNum, files) ==
    [NoGraph EXCEPT !.main = "enqueue", !.files = files,
                    !.workers = workersOf(processNum, files),
                    !.w = [i \in 1..workersOf(processNum, files) |-> "start"],
                    !.writer = "open"]

\* what a worker does with one path: BuildGameRecord returns a record
\* ("record"), fails on the file ("failed"), or fails on the engine and the
\* new startSession fails as well ("restartFailed"); an engine failure
\* followed by a successful restart ends as "record" or "failed"
BuildOutcomes == {"record", "failed", "restartFailed"}

----------------------------------------------------------------------------
(* Check detection and legality (Position.IsInCheck, Position.IsLegalPosition): *)
(* the tests and cmd/book call them, their code is not among the files, so  *)
(* they are written from the specification text (section 4.2)              *)

\* forward is rank-decreasing for Black and rank-increasing for White
Forward(color) == IF color = Black THEN -1 ELSE 1

\* the one-step offsets <<file, rank>> of a piece: the fixed sets of Pawn,
\* Silver, Gold (also the promoted Pawn, Lance, Knight and Silver) and King,
\* the Knight's two jumps, and the steps promotion adds to Rook and Bishop
StepOffsets(piece) ==
    LET fwd == Forward(piece.color)
        gold == {<<-1, fwd>>, <<0, fwd>>, <<1, fwd>>, <<-1, 0>>, <<1, 0>>, <<0, -fwd>>}
    IN  IF piece.kind = "K" THEN ((-1..1) \X (-1..1)) \ {<<0, 0>>}
        ELSE IF piece.kind = "G" THEN gold
        ELSE IF piece.kind \in {"P", "L", "N", "S"} /\ piece.promoted THEN gold
        ELSE IF piece.kind = "P" THEN {<<0, fwd>>}
        ELSE IF piece.kind = "S"
             THEN {<<-1, fwd>>, <<0, fwd>>, <<1, fwd>>, <<-1, -fwd>>, <<1, -fwd>>}
        ELSE IF piece.kind = "N" THEN {<<-1, 2 * fwd>>, <<1, 2 * fwd>>}
        ELSE IF piece.kind = "R" /\ piece.promoted
             THEN {<<-1, -1>>, <<-1, 1>>, <<1, -1>>, <<1, 1>>}
        ELSE IF piece.kind = "B" /\ piece.promoted
             THEN {<<-1, 0>>, <<1, 0>>, <<0, -1>>, <<0, 1>>}
        ELSE {}

\* the directions <<file, rank>> a piece slides in
SlideDirections(piece) ==
    IF piece.kind = "R" THEN {<<-1, 0>>, <<1, 0>>, <<0, -1>>, <<0, 1>>}
    ELSE IF piece.kind = "B" THEN {<<-1, -1>>, <<-1, 1>>, <<1, -1>>, <<1, 1>>}
    ELSE IF piece.kind = "L" /\ ~piece.promoted THEN {<<0, Forward(piece.color)>>}
    ELSE {}

\* a slide that goes on over occupied squares
RECURSIVE slideReachesThrough(_, _, _, _)
slideReachesThrough(p, from, dir, to) ==
    LET next == Square(from.file + dir[1], from.rank + dir[2])
    IN  IF next.file < 1 \/ next.file > 9 \/ next.rank < 1 \/ next.rank > 9 THEN FALSE
        ELSE IF next = to THEN TRUE
        ELSE slideReachesThrough(p, next, dir, to)

\* a slide from square `from` in direction dir reaches the square `to`: it
\* goes on over empty squares and stops at the first occupied one
RECURSIVE slideReaches(_, _, _, _)
slideReaches(p, from, dir, to) ==
    LET next == Square(from.file + dir[1], from.rank + dir[2])
    IN  IF next.file < 1 \/ next.file > 9 \/ next.rank < 1 \/ next.rank > 9 THEN FALSE
        ELSE IF next = to THEN TRUE
        ELSE IF pieceAt(p, next) # NoPiece THEN FALSE
        ELSE slideReaches(p, next, dir, to)

\* the piece on square `from` attacks the square `to`
attacks(p, from, to) ==
    \/ <<to.file - from.file, to.rank - from.rank>> \in StepOffsets(pieceAt(p, from))
    \/ \E dir \in SlideDirections(pieceAt(p, from)) : slideReaches(p, from, dir, to)

\* the squares of the board
Squares == { Square(file, rank) : file \in 1..9, rank \in 1..9 }

\* p.IsInCheck(color): the King square of color is attacked by an opposing
\* piece; "missing king" when color has no King on the board
IsInCheck(p, color) ==
    LET kings == { s \in Squares : pieceAt(p, s) = Piece("K", color, FALSE) }
    IN  IF kings = {} THEN [inCheck |-> FALSE, err |-> "missing king"]
        ELSE [inCheck |-> \E from \in Squares :
                              /\ pieceAt(p, from) # NoPiece
                              /\ pieceAt(p, from).color # color
                              /\ attacks(p, from, CHOOSE s \in kings : TRUE),
              err |-> NoErr]

\* IsLegalPosition that looks at the side to move
IsLegalPositionOfMover(p) == ~IsInCheck(p, p.turn).inCheck

\* p.IsLegalPosition(): the side that is not to move is not in check
IsLegalPosition(p) == ~IsInCheck(p, IF p.turn = Black THEN White ELSE Black).inCheck

----------------------------------------------------------------------------
(* Specification of the Position operations *)

Init ==
    \E std \in {StandardPosition} :
        /\ heap = [r \in Refs |->
                     IF r \in {RefInitial, RefPos} THEN std.hands ELSE EmptyHands]
        /\ pos = AtRef(std, RefPos)
        /\ clone = AtRef(ZeroPosition, RefClone)
        /\ hasClone = FALSE
        /\ err = NoErr
        /\ last = NoCall
        /\ calls = 0
        /\ succ = [pos |-> 0, clone |-> 0]
        /\ fail = [pos |-> 0, clone |-> 0]
        /\ b = [initial |-> AtRef(std, RefInitial), moves |-> <<>>, foulEnd |-> FALSE]
        /\ sfenRes = NoSfenRes
        /\ packRes = NoPackRes
        /\ unpackRes = NoUnpackRes
        /\ legal = NoLegalCall
        /\ kif = NoRecord
        /\ game = NoGame
        /\ textRes = NoTextRes
        /\ session = NoSession
        /\ graph = NoGraph

\* pos.ApplyMove(m)
ApplyMoveAct(m) ==
    /\ calls < MaxCalls
    /\ ~packRes.called
    /\ \E out \in {ApplyMove(heap, pos, m)} :
           /\ heap' = out.heap
           /\ pos' = out.pos
           /\ err' = out.err
           /\ succ' = IF out.err = NoErr THEN [succ EXCEPT !.pos = @ + 1] ELSE succ
           /\ fail' = IF out.err # NoErr THEN [fail EXCEPT !.pos = @ + 1] ELSE fail
    /\ last' = [target |-> "pos", move |-> m]
    /\ calls' = calls + 1
    /\ UNCHANGED <<clone, hasClone, b, sfenRes, packRes, unpackRes, legal, kif, game, textRes, session, graph>>

\* clone = pos.Clone(); the clone has the history of pos
CloneAct ==
    /\ \E out \in {Clone(heap, pos, RefClone)} :
           /\ heap' = out.heap
           /\ clone' = out.pos
    /\ hasClone' = TRUE
    /\ succ' = [succ EXCEPT !.clone = succ.pos]
    /\ fail' = [fail EXCEPT !.clone = fail.pos]
    /\ UNCHANGED <<pos, err, last, calls, b, sfenRes, packRes, unpackRes, legal, kif, game, textRes, session, graph>>

\* clone.ApplyMove(m)
ApplyMoveCloneAct(m) ==
    /\ hasClone
    /\ calls < MaxCalls
    /\ \E out \in {ApplyMove(heap, clone, m)} :
           /\ heap' = out.heap
           /\ clone' = out.pos
           /\ err' = out.err
           /\ succ' = IF out.err = NoErr THEN [succ EXCEPT !.clone = @ + 1] ELSE succ
           /\ fail' = IF out.err # NoErr THEN [fail EXCEPT !.clone = @ + 1] ELSE fail
    /\ last' = [target |-> "clone", move |-> m]
    /\ calls' = calls + 1
    /\ UNCHANGED <<pos, hasClone, b, sfenRes, packRes, unpackRes, legal, kif, game, textRes, session, graph>>

Next ==
    \/ \E m \in Moves : ApplyMoveAct(m)
    \/ CloneAct
    \/ \E m \in Moves : ApplyMoveCloneAct(m)

Spec == Init /\ [][Next]_vars

----------------------------------------------------------------------------
(* Specification of the codec: a position reached by ApplyMove calls is     *)
(* packed, and the Packed256, as it is or with one bit altered, is unpacked *)

\* packed, err := PackPosition256(pos)
PackAct ==
    /\ ~packRes.called
    /\ \E out \in {PackPosition256(Deref(heap, pos))} :
           packRes' = [called |-> TRUE, input |-> Deref(heap, pos),
                       moveNumber |-> succ.pos + 1,
                       words |-> out.words, err |-> out.err, bits |-> out.bits]
    /\ UNCHANGED <<heap, pos, clone, hasClone, err, last, calls, succ, fail, b, sfenRes,
                   unpackRes, legal, kif, game, textRes, session, graph>>

\* unpacked, err := UnpackPosition256(packed), packed with bit `flip` altered
UnpackAct(flip) ==
    /\ packRes.called
    /\ packRes.err = NoErr
    /\ ~unpackRes.called
    /\ \E out \in {UnpackPosition256(FlipBit(packRes.words, flip))} :
           unpackRes' = [called |-> TRUE, flip |-> flip, sameKings |-> FALSE, pos |-> out.pos,
                         err |-> out.err, panic |-> out.panic, read |-> out.read]
    /\ UNCHANGED <<heap, pos, clone, hasClone, err, last, calls, succ, fail, b, sfenRes,
                   packRes, legal, kif, game, textRes, session, graph>>

\* unpacked, err := UnpackPosition256(packed), packed with the Black King index
\* written over the White King index
UnpackSameKingsAct ==
    /\ packRes.called
    /\ packRes.err = NoErr
    /\ ~unpackRes.called
    /\ \E out \in {UnpackPosition256(SameKings(packRes.words))} :
           unpackRes' = [called |-> TRUE, flip |-> -1, sameKings |-> TRUE, pos |-> out.pos,
                         err |-> out.err, panic |-> out.panic, read |-> out.read]
    /\ UNCHANGED <<heap, pos, clone, hasClone, err, last, calls, succ, fail, b, sfenRes,
                   packRes, legal, kif, game, textRes, session, graph>>

NextCodec ==
    \/ \E m \in Moves : ApplyMoveAct(m)
    \/ PackAct
    \/ \E flip \in FlipBits : UnpackAct(flip)
    \/ UnpackSameKingsAct

SpecCodec == Init /\ [][NextCodec]_vars

----------------------------------------------------------------------------
(* Specification of the Board: built once with a move list, then asked for  *)
(* derived positions in any order                                          *)

InitBoard ==
    \E std \in {StandardPosition} :
        /\ heap = [r \in Refs |->
                     IF r \in {RefInitial, RefPos} THEN std.hands ELSE EmptyHands]
        /\ pos = AtRef(std, RefPos)
        /\ clone = AtRef(ZeroPosition, RefClone)
        /\ hasClone = FALSE
        /\ err = NoErr
        /\ last = NoCall
        /\ calls = 0
        /\ succ = [pos |-> 0, clone |-> 0]
        /\ fail = [pos |-> 0, clone |-> 0]
        /\ \E moves \in BoardMoveLists :
              b = [initial |-> AtRef(std, RefInitial), moves |-> moves,
                   foulEnd |-> FALSE]
        /\ sfenRes = NoSfenRes
        /\ packRes = NoPackRes
        /\ unpackRes = NoUnpackRes
        /\ legal = NoLegalCall
        /\ kif = NoRecord
        /\ game = NoGame
        /\ textRes = NoTextRes
        /\ session = NoSession
        /\ graph = NoGraph

\* text, err := b.SFENAt(move)
SFENAtAct(move) ==
    /\ \E out \in {SFENAt(heap, b, move)} :
           /\ heap' = out.heap
           /\ sfenRes' = [called |-> TRUE, move |-> move, text |-> out.text,
                          errMove |-> out.errMove, err |-> out.err]
    /\ UNCHANGED <<pos, clone, hasClone, err, last, calls, succ, fail, b, packRes,
                   unpackRes, legal, kif, game, textRes, session, graph>>

NextBoard == \E move \in -1..(MaxBoardMoves + 1) : SFENAtAct(move)

SpecBoard == InitBoard /\ [][NextBoard]_vars

----------------------------------------------------------------------------
(* Specification of check detection: pieces are set on a board that holds   *)
(* the two Kings and the turn is set; the position built is then asked      *)
(* whether a side is in check and whether it is legal (as legality_test.go  *)
(* does)                                                                    *)

\* the most pieces set on the board besides the Kings
MaxPlaced == 3

\* the arguments of SetPiece: <<file, rank, kind, color, promoted>>.  Rooks,
\* Bishops and Lances on a line with the opposing King (one Lance behind
\* it), and pieces on squares between them
Placements ==
    { <<5, 9, "R", Black, FALSE>>, <<5, 6, "L", Black, FALSE>>, <<9, 5, "B", Black, FALSE>>,
      <<5, 4, "P", Black, FALSE>>, <<7, 3, "P", White, FALSE>>,
      <<1, 1, "R", White, FALSE>>, <<6, 5, "R", White, FALSE>>, <<1, 2, "L", White, FALSE>>,
      <<1, 8, "L", White, FALSE>>, <<4, 2, "B", White, FALSE>>,
      <<1, 3, "G", Black, FALSE>>, <<3, 3, "N", Black, FALSE>>, <<3, 5, "S", White, TRUE>> }

\* pos := NewPosition() with the White King set on 5a and the Black King on 1e
InitLegal ==
    /\ heap = [r \in Refs |-> EmptyHands]
    /\ pos = AtRef(setPiece(setPiece(ZeroPosition, Square(5, 1), Piece("K", White, FALSE)),
                            Square(1, 5), Piece("K", Black, FALSE)), RefPos)
    /\ clone = AtRef(ZeroPosition, RefClone)
    /\ hasClone = FALSE
    /\ err = NoErr
    /\ last = NoCall
    /\ calls = 0
    /\ succ = [pos |-> 0, clone |-> 0]
    /\ fail = [pos |-> 0, clone |-> 0]
    /\ b = [initial |-> AtRef(ZeroPosition, RefInitial), moves |-> <<>>, foulEnd |-> FALSE]
    /\ sfenRes = NoSfenRes
    /\ packRes = NoPackRes
    /\ unpackRes = NoUnpackRes
    /\ legal = NoLegalCall
    /\ kif = NoRecord
    /\ game = NoGame
    /\ textRes = NoTextRes
    /\ session = NoSession
    /\ graph = NoGraph

\* pos.SetPiece(file, rank, kind, color, promoted)
SetPieceAct(pl) ==
    /\ legal.call = ""
    /\ pieceAt(pos, Square(pl[1], pl[2])) = NoPiece
    /\ Cardinality({ s \in Squares : pieceAt(pos, s) # NoPiece }) < MaxPlaced + 2
    /\ pos' = setPiece(pos, Square(pl[1], pl[2]), Piece(pl[3], pl[4], pl[5]))
    /\ UNCHANGED <<heap, clone, hasClone, err, last, calls, succ, fail, b, sfenRes, packRes,
                   unpackRes, legal, kif, game, textRes, session, graph>>

\* pos.SetTurn(color)
SetTurnAct(color) ==
    /\ legal.call = ""
    /\ pos.turn # color
    /\ pos' = [pos EXCEPT !.turn = color]
    /\ UNCHANGED <<heap, clone, hasClone, err, last, calls, succ, fail, b, sfenRes, packRes,
                   unpackRes, legal, kif, game, textRes, session, graph>>

\* pos.IsInCheck(color)
IsInCheckAct(color) ==
    /\ \E out \in {IsInCheck(pos, color)} :
           legal' = [call |-> "IsInCheck", color |-> color, pos |-> Deref(heap, pos),
                     result |-> out.inCheck, err |-> out.err]
    /\ UNCHANGED <<heap, pos, clone, hasClone, err, last, calls, succ, fail, b, sfenRes,
                   packRes, unpackRes, kif, game, textRes, session, graph>>

\* pos.IsLegalPosition()
IsLegalPositionAct ==
    /\ legal' = [call |-> "IsLegalPosition", color |-> Black, pos |-> Deref(heap, pos),
                 result |-> IsLegalPosition(pos), err |-> NoErr]
    /\ UNCHANGED <<heap, pos, clone, hasClone, err, last, calls, succ, fail, b, sfenRes,
                   packRes, unpackRes, kif, game, textRes, session, graph>>

NextLegal ==
    \/ \E pl \in Placements : SetPieceAct(pl)
    \/ \E color \in Colors : SetTurnAct(color)
    \/ \E color \in Colors : IsInCheckAct(color)
    \/ IsLegalPositionAct

SpecLegal == InitLegal /\ [][NextLegal]_vars

----------------------------------------------------------------------------
(* Specification of the notation decoder: a record is decoded into a Board  *)
(* (BoardFromKIF), the Board is asked for positions (SFENAt), and the       *)
(* record is evaluated (BuildGameRecord)                                    *)

\* the most move lines in a record made of SeqTokens
MaxMoveLines == 3

\* A move token as the record writes it: the same-square marker or the
\* destination (a full-width digit and a rank numeral), the piece glyph, the
\* mark ("nari": promotion marker, "not": no-promotion marker), the drop
\* marker, the source square in parentheses (<<>>: none).
Entry(same, file, rank, glyph, mark, drop, from) ==
    [same |-> same, file |-> file, rank |-> rank, glyph |-> glyph, mark |-> mark,
     drop |-> drop, from |-> from]

TokenText(e) ==
    (IF e.same THEN <<"same", "wsp">> ELSE <<WideDigits[e.file], RankRunes[e.rank]>>)
    \o e.glyph
    \o (IF e.mark = "nari" THEN <<"nari">> ELSE IF e.mark = "not" THEN <<"not", "nari">>
        ELSE <<>>)
    \o (IF e.drop THEN <<"uchi">> ELSE <<>>)
    \o (IF e.from = <<>> THEN <<>>
        ELSE <<"(", DigitChars[e.from[1] + 1], DigitChars[e.from[2] + 1], ")">>)

\* the glyphs of the piece table
Glyphs == { pieceDefs[i].name : i \in 1..Len(pieceDefs) }

\* every glyph with every mark, with and without drop marker and source
TokenEntries ==
    { Entry(FALSE, 5, 3, glyph, mark, drop, from) :
        glyph \in Glyphs, mark \in {"", "nari", "not"}, drop \in BOOLEAN,
        from \in {<<>>, <<4, 2>>} }

\* a Pawn push, a drop of a Bishop, and a same-square move
SeqEntries ==
    { Entry(FALSE, 7, 6, <<"fu">>, "", FALSE, <<7, 7>>),
      Entry(FALSE, 5, 5, <<"kaku">>, "", TRUE, <<>>),
      Entry(TRUE, 0, 0, <<"fu">>, "", FALSE, <<6, 7>>) }

\* the first moves of a game: Pawn, Pawn, Bishop takes Bishop and promotes
GameEntries ==
    << Entry(FALSE, 7, 6, <<"fu">>, "", FALSE, <<7, 7>>),
       Entry(FALSE, 3, 4, <<"fu">>, "", FALSE, <<3, 3>>),
       Entry(FALSE, 2, 2, <<"kaku">>, "nari", FALSE, <<8, 8>>) >>

\* A record: its header ("even": the handicap line with the even-handicap
\* marker; "rows": that line with a board row and a turn line; "other": a
\* handicap line of another handicap; "none"), its move tokens, its terminal
\* token (<<>>: none), whether the terminal line has a clock, and the move
\* tokens of the lines after the terminal line (a variation)
Record(header, entries, terminal, clock) ==
    [header |-> header, entries |-> entries, terminal |-> terminal, clock |-> clock,
     tail |-> <<>>]

Records ==
    { Record("even", <<e>>, <<>>, FALSE) : e \in TokenEntries }
    \cup { Record("even", es, terminal, FALSE) :
             es \in UNION { [1..n -> SeqEntries] : n \in 1..MaxMoveLines },
             terminal \in {<<>>, <<"han", "soku", "ma", "ke">>} }
    \cup { Record("even", SubSeq(GameEntries, 1, n), terminal, clock) :
             n \in 1..3, terminal \in TerminalTokens \cup {<<>>}, clock \in BOOLEAN }
    \cup { Record(header, SubSeq(GameEntries, 1, 2), <<"tou", "ryou">>, TRUE) :
             header \in {"rows", "other", "none"} }

\* the lines of a record: the header, the move lines numbered from 1 with
\* their clocks, the terminal line, and the lines of a variation that begins
\* at the last move: a heading and numbered move lines with their clocks
RecordLines(r) ==
    (IF r.header \in {"even", "rows"}
     THEN <<Line(0, <<"te", "ai", "wari", "colon", "hira", "te">>, FALSE)>>
     ELSE IF r.header = "other"
     THEN <<Line(0, <<"te", "ai", "wari", "colon", "kyo", "ochi", "chi">>, FALSE)>>
     ELSE <<>>)
    \o (IF r.header = "rows"
        THEN <<Line(0, <<"|", " ", "kin", "|">>, FALSE), Line(0, <<"go", "te", "ban">>, FALSE)>>
        ELSE <<>>)
    \o [i \in 1..Len(r.entries) |-> Line(i, TokenText(r.entries[i]), TRUE)]
    \o (IF r.terminal = <<>> THEN <<>>
        ELSE <<Line(Len(r.entries) + 1, r.terminal, r.clock)>>)
    \o (IF r.tail = <<>> THEN <<>>
        ELSE <<Line(0, <<"hen", "bake", "colon">>, FALSE)>>
             \o [i \in 1..Len(r.tail) |->
                    Line(Len(r.entries) + i - 1, TokenText(r.tail[i]), TRUE)])

InitKIF ==
    /\ heap = [r \in Refs |-> EmptyHands]
    /\ pos = AtRef(ZeroPosition, RefPos)
    /\ clone = AtRef(ZeroPosition, RefClone)
    /\ hasClone = FALSE
    /\ err = NoErr
    /\ last = NoCall
    /\ calls = 0
    /\ succ = [pos |-> 0, clone |-> 0]
    /\ fail = [pos |-> 0, clone |-> 0]
    /\ b = [initial |-> AtRef(ZeroPosition, RefInitial), moves |-> <<>>, foulEnd |-> FALSE]
    /\ sfenRes = NoSfenRes
    /\ packRes = NoPackRes
    /\ unpackRes = NoUnpackRes
    /\ legal = NoLegalCall
    /\ \E r \in Records : kif = [NoRecord EXCEPT !.record = r]
    /\ game = NoGame
    /\ textRes = NoTextRes
    /\ session = NoSession
    /\ graph = NoGraph

\* b, err := BoardFromKIF(lines)
BoardFromKIFAct ==
    /\ ~kif.loaded
    /\ kif.err = NoErr
    /\ hasEvenHandicap(RecordLines(kif.record))
         \/ collectBoardLines(RecordLines(kif.record)) = <<>>
    /\ \E out \in {BoardFromKIF(RecordLines(kif.record))} :
           /\ kif' = [kif EXCEPT !.loaded = (out.err = NoErr), !.errLine = out.errLine,
                                 !.err = out.err]
           /\ b' = [initial |-> AtRef(out.initial, RefInitial), moves |-> out.moves,
                    foulEnd |-> out.foulEnd]
           /\ heap' = [heap EXCEPT ![RefInitial] = out.initial.hands]
    /\ UNCHANGED <<pos, clone, hasClone, err, last, calls, succ, fail, sfenRes, packRes,
                   unpackRes, legal, game, textRes, session, graph>>

\* record, err := BuildGameRecord(ctx, path, session, moveTimeMs, nil)
BuildGameRecordAct(engineOk) ==
    /\ ~game.called
    /\ hasEvenHandicap(RecordLines(kif.record))
         \/ collectBoardLines(RecordLines(kif.record)) = <<>>
    /\ \E out \in {BuildGameRecord(RecordLines(kif.record), EngineOf(engineOk), <<>>)} :
           game' = [called |-> TRUE, engineOk |-> engineOk, moveCount |-> out.moveCount,
                    evals |-> out.evals, moveEvals |-> out.moveEvals,
                    applied |-> out.applied, result |-> out.result,
                    errMove |-> out.errMove, err |-> out.err, sent |-> out.sent,
                    cache |-> out.cache, steps |-> out.steps, builds |-> 1,
                    before |-> <<>>, engine |-> EngineOf(engineOk)]
    /\ UNCHANGED <<heap, pos, clone, hasClone, err, last, calls, succ, fail, b, sfenRes,
                   packRes, unpackRes, legal, kif, textRes, session, graph>>

NextKIF ==
    \/ BoardFromKIFAct
    \/ kif.loaded /\ \E move \in 0..1 : SFENAtAct(move)
    \/ \E engineOk \in BOOLEAN : BuildGameRecordAct(engineOk)

SpecKIF == InitKIF /\ [][NextKIF]_vars

----------------------------------------------------------------------------
(* Specification of the canonical text: a position reached by ApplyMove    *)
(* calls is written with ToSFEN and the text is read by parseSFENPosition  *)

\* the move numbers given to ToSFEN
MoveNumbers == {0, 1, 12}

\* text := pos.ToSFEN(n); back, err := parseSFENPosition(text)
ToSFENAct(n) ==
    /\ \E text \in {ToSFEN(Deref(heap, pos), n)} :
         \E back \in {parseSFENPosition(text)} :
            textRes' = [called |-> TRUE, moveNumber |-> n, of |-> Deref(heap, pos),
                       text |-> text, pos |-> back.pos, err |-> back.err]
    /\ UNCHANGED <<heap, pos, clone, hasClone, err, last, calls, succ, fail, b, sfenRes,
                   packRes, unpackRes, legal, kif, game, session, graph>>

NextText ==
    \/ ~textRes.called /\ \E m \in Moves : ApplyMoveAct(m)
    \/ \E n \in MoveNumbers : ToSFENAct(n)

SpecText == Init /\ [][NextText]_vars

----------------------------------------------------------------------------
(* Specification of the lines of a record: records with and without a      *)
(* clock on the terminal line and with lines after it are decoded into a    *)
(* Board                                                                    *)

\* the moves of a variation: a Pawn push of White, a Pawn push of Black
TailEntries ==
    << Entry(FALSE, 8, 4, <<"fu">>, "", FALSE, <<8, 3>>),
       Entry(FALSE, 2, 6, <<"fu">>, "", FALSE, <<2, 7>>) >>

\* the first moves of a game, a terminal line with or without a clock, and
\* no, one or two move lines after it
LineRecords ==
    { [Record("even", SubSeq(GameEntries, 1, n), terminal, clock)
         EXCEPT !.tail = SubSeq(TailEntries, 1, t)] :
        n \in 1..3, terminal \in TerminalTokens, clock \in BOOLEAN, t \in 0..2 }

InitKIFLines ==
    /\ heap = [r \in Refs |-> EmptyHands]
    /\ pos = AtRef(ZeroPosition, RefPos)
    /\ clone = AtRef(ZeroPosition, RefClone)
    /\ hasClone = FALSE
    /\ err = NoErr
    /\ last = NoCall
    /\ calls = 0
    /\ succ = [pos |-> 0, clone |-> 0]
    /\ fail = [pos |-> 0, clone |-> 0]
    /\ b = [initial |-> AtRef(ZeroPosition, RefInitial), moves |-> <<>>, foulEnd |-> FALSE]
    /\ sfenRes = NoSfenRes
    /\ packRes = NoPackRes
    /\ unpackRes = NoUnpackRes
    /\ legal = NoLegalCall
    /\ \E r \in LineRecords : kif = [NoRecord EXCEPT !.record = r]
    /\ game = NoGame
    /\ textRes = NoTextRes
    /\ session = NoSession
    /\ graph = NoGraph

NextKIFLines == BoardFromKIFAct

SpecKIFLines == InitKIFLines /\ [][NextKIFLines]_vars

----------------------------------------------------------------------------
(* Specification of the engine session: Evaluate calls on one Session,      *)
(* each with a context of its own that may end while the call waits, and   *)
(* an engine that reads the commands in order and answers every go command *)
(* with info lines and one bestmove line                                   *)

\* the number of Evaluate calls, and of info lines the engine writes
MaxEvaluates == 2
MaxInfos == 2

\* the info lines of the engine: without score, with a centipawn score,
\* with a mate score, with a score of another kind
InfoLines ==
    { <<"info", "depth", "1">>,
      <<"info", "depth", "2", "score", "cp", "35">>,
      <<"info", "score", "mate", "+3">>,
      <<"info", "score", "lowerbound", "35">> }

InitSession ==
    /\ heap = [r \in Refs |-> EmptyHands]
    /\ pos = AtRef(ZeroPosition, RefPos)
    /\ clone = AtRef(ZeroPosition, RefClone)
    /\ hasClone = FALSE
    /\ err = NoErr
    /\ last = NoCall
    /\ calls = 0
    /\ succ = [pos |-> 0, clone |-> 0]
    /\ fail = [pos |-> 0, clone |-> 0]
    /\ b = [initial |-> AtRef(ZeroPosition, RefInitial), moves |-> <<>>, foulEnd |-> FALSE]
    /\ sfenRes = NoSfenRes
    /\ packRes = NoPackRes
    /\ unpackRes = NoUnpackRes
    /\ legal = NoLegalCall
    /\ kif = NoRecord
    /\ game = NoGame
    /\ textRes = NoTextRes
    /\ session = NoSession
    /\ graph = NoGraph

SessionUnchanged ==
    UNCHANGED <<heap, pos, clone, hasClone, err, last, calls, succ, fail, b, sfenRes,
                packRes, unpackRes, legal, kif, game, textRes, graph>>

\* session.Evaluate(ctx, sfen, moveTimeMs) up to its loop: the two commands
\* are sent; turn is the second field of sfen
EvaluateAct(turn) ==
    /\ session.pc = "idle"
    /\ session.call < MaxEvaluates
    /\ session' = [session EXCEPT
                     !.stdin = @ \o <<[cmd |-> "position", call |-> session.call + 1],
                                      [cmd |-> "go", call |-> session.call + 1]>>,
                     !.sent = @ \o <<[cmd |-> "position", call |-> session.call + 1],
                                     [cmd |-> "go", call |-> session.call + 1]>>,
                     !.pc = "wait", !.call = @ + 1, !.turn = turn,
                     !.score = ZeroScore, !.haveScore = FALSE, !.scoreOf = 0,
                     !.seen = <<>>, !.ret = NoReturn]
    /\ SessionUnchanged

\* nextEvent takes an event from the channel and the loop of Evaluate acts
\* on it
NextEventAct ==
    /\ session.pc = "wait"
    /\ session.events # <<>>
    /\ \E event \in {Head(session.events)} :
         session' = evaluateEvent([session EXCEPT !.events = Tail(@),
                                                  !.seen = Append(@, event)],
                                  event, parseInfoScore(event.raw))
    /\ SessionUnchanged

\* nextEvent finds the context of the call done
ContextDoneAct ==
    /\ session.pc = "wait"
    /\ session' = evaluateError([session EXCEPT !.cancelled = @ + 1], "context canceled")
    /\ SessionUnchanged

\* the engine reads a command: a go command starts a search
EngineReadAct ==
    /\ session.search = 0
    /\ session.stdin # <<>>
    /\ session' = [session EXCEPT
                     !.stdin = Tail(@),
                     !.search = IF Head(session.stdin).cmd = "go"
                                THEN Head(session.stdin).call ELSE 0]
    /\ SessionUnchanged

\* the engine writes an info line of its search, the reader goroutine
\* parses it and puts the event in the channel
EngineInfoAct(line) ==
    /\ session.search # 0
    /\ session.infos < MaxInfos
    /\ session' = [session EXCEPT
                     !.events = Append(@, ParseLine(line, session.search)),
                     !.infos = @ + 1]
    /\ SessionUnchanged

\* the engine ends its search with a bestmove line
EngineBestMoveAct ==
    /\ session.search # 0
    /\ session' = [session EXCEPT
                     !.events = Append(@, ParseLine(<<"bestmove", "7g7f">>, session.search)),
                     !.search = 0]
    /\ SessionUnchanged

NextSession ==
    \/ \E turn \in {"b", "w"} : EvaluateAct(turn)
    \/ NextEventAct
    \/ ContextDoneAct
    \/ EngineReadAct
    \/ \E line \in InfoLines : EngineInfoAct(line)
    \/ EngineBestMoveAct

SpecSession == InitSession /\ [][NextSession]_vars

----------------------------------------------------------------------------
(* The cmd/graph pipeline: main, the worker goroutines and the goroutine    *)
(* that calls WriteParquet, with the channels jobs (unbuffered), results    *)
(* and errCh (capacity workers) and writeErr (capacity 1).  The progress    *)
(* goroutine takes no part in the synchronisation and is left out; the      *)
(* run is without --resume.                                                  *)

MaxWorkers == 2
MaxFiles == 3

InitGraph ==
    /\ heap = [r \in Refs |-> EmptyHands]
    /\ pos = AtRef(ZeroPosition, RefPos)
    /\ clone = AtRef(ZeroPosition, RefClone)
    /\ hasClone = FALSE
    /\ err = NoErr
    /\ last = NoCall
    /\ calls = 0
    /\ succ = [pos |-> 0, clone |-> 0]
    /\ fail = [pos |-> 0, clone |-> 0]
    /\ b = [initial |-> AtRef(ZeroPosition, RefInitial), moves |-> <<>>, foulEnd |-> FALSE]
    /\ sfenRes = NoSfenRes
    /\ packRes = NoPackRes
    /\ unpackRes = NoUnpackRes
    /\ legal = NoLegalCall
    /\ kif = NoRecord
    /\ game = NoGame
    /\ textRes = NoTextRes
    /\ session = NoSession
    /\ \E processNum \in 0..MaxWorkers, files \in 1..MaxFiles :
           graph = startGraph(processNum, files)

GraphUnchanged ==
    UNCHANGED <<heap, pos, clone, hasClone, err, last, calls, succ, fail, b, sfenRes,
                packRes, unpackRes, legal, kif, game, textRes, session>>

AllWorkersDone == \A i \in 1..graph.workers : graph.w[i] = "done"

\* a worker goroutine up to its range over jobs: it returns when the stop was
\* requested, sends the error to errCh and returns when startSession fails
WorkerStartAct(i, started) ==
    /\ i \in 1..graph.workers
    /\ graph.w[i] = "start"
    /\ graph' = IF graph.stop THEN [graph EXCEPT !.w[i] = "done"]
                ELSE IF ~started
                     THEN [graph EXCEPT !.w[i] = "done", !.errs = @ + 1]
                     ELSE [graph EXCEPT !.w[i] = "range"]
    /\ GraphUnchanged

\* main sends a path on jobs and a worker receives it (jobs is unbuffered:
\* the send and the receive are one step)
JobAct(i) ==
    /\ graph.main = "enqueue"
    /\ graph.next < graph.files
    /\ i \in 1..graph.workers
    /\ graph.w[i] = "range"
    /\ graph' = [graph EXCEPT !.next = @ + 1,
                              !.w[i] = IF graph.stop THEN "done" ELSE "build"]
    /\ GraphUnchanged

\* main leaves the enqueue loop, after the last file or on stopRequested,
\* and closes jobs
CloseJobsAct ==
    /\ graph.main = "enqueue"
    /\ graph.next = graph.files \/ graph.stop
    /\ graph' = [graph EXCEPT !.main = "wgWait", !.jobsClosed = TRUE]
    /\ GraphUnchanged

\* a worker finds jobs closed and empty: its range ends
WorkerEndAct(i) ==
    /\ i \in 1..graph.workers
    /\ graph.w[i] = "range"
    /\ graph.jobsClosed
    /\ graph' = [graph EXCEPT !.w[i] = "done"]
    /\ GraphUnchanged

\* a worker processes the path it received, up to the send on results
WorkerBuildAct(i, outcome) ==
    /\ i \in 1..graph.workers
    /\ graph.w[i] = "build"
    /\ graph' = IF graph.stop THEN [graph EXCEPT !.w[i] = "done"]
                ELSE IF outcome = "restartFailed"
                     THEN [graph EXCEPT !.w[i] = "done", !.errs = @ + 1]
                ELSE IF outcome = "failed"
                     THEN [graph EXCEPT !.w[i] = "range", !.processed = @ + 1]
                ELSE [graph EXCEPT !.w[i] = "send"]
    /\ GraphUnchanged

\* results <- record, once the channel has room
WorkerSendAct(i) ==
    /\ i \in 1..graph.workers
    /\ graph.w[i] = "send"
    /\ graph.results < graph.workers
    /\ graph' = [graph EXCEPT !.w[i] = "range", !.results = @ + 1,
                              !.processed = @ + 1]
    /\ GraphUnchanged

\* wg.Wait() returns; close(done); close(results)
WaitAct ==
    /\ graph.main = "wgWait"
    /\ AllWorkersDone
    /\ graph' = [graph EXCEPT !.main = "writeWait", !.resultsClosed = TRUE]
    /\ GraphUnchanged

\* writeWg.Wait() returns and the result of the writer is received
WriteResultAct ==
    /\ graph.main = "writeWait"
    /\ graph.writer = "returned"
    /\ graph.writeErr # "empty"
    /\ graph' = [graph EXCEPT !.main = "finished", !.writeErr = "empty"]
    /\ GraphUnchanged

\* WriteParquet up to its range over records: the schema is loaded and
\* checked and the file and the writer are opened, or an error is returned
WriterOpenAct(opened) ==
    /\ graph.writer = "open"
    /\ graph' = IF opened THEN [graph EXCEPT !.writer = "range"]
                ELSE [graph EXCEPT !.writer = "returned", !.writeErr = "error"]
    /\ GraphUnchanged

\* WriteParquet takes a record and writes it, or returns the error
WriterTakeAct(wrote) ==
    /\ graph.writer = "range"
    /\ graph.results > 0
    /\ graph' = IF wrote
                THEN [graph EXCEPT !.results = @ - 1, !.written = @ + 1]
                ELSE [graph EXCEPT !.results = @ - 1, !.writer = "returned",
                                   !.writeErr = "error"]
    /\ GraphUnchanged

\* WriteParquet finds records closed and empty, stops the writer and returns
WriterEndAct(stopped) ==
    /\ graph.writer = "range"
    /\ graph.results = 0
    /\ graph.resultsClosed
    /\ graph' = [graph EXCEPT !.writer = "returned",
                              !.writeErr = IF stopped THEN "nil" ELSE "error"]
    /\ GraphUnchanged

\* SIGINT or SIGTERM arrives: cancel() and close(stopRequested)
StopAct ==
    /\ ~graph.stop
    /\ graph.main # "finished"
    /\ graph' = [graph EXCEPT !.stop = TRUE]
    /\ GraphUnchanged

\* the steps of the program's own goroutines
NextGraphProgram ==
    \/ \E i \in 1..MaxWorkers, started \in BOOLEAN : WorkerStartAct(i, started)
    \/ \E i \in 1..MaxWorkers : JobAct(i)
    \/ CloseJobsAct
    \/ \E i \in 1..MaxWorkers : WorkerEndAct(i)
    \/ \E i \in 1..MaxWorkers, outcome \in BuildOutcomes : WorkerBuildAct(i, outcome)
    \/ \E i \in 1..MaxWorkers : WorkerSendAct(i)
    \/ WaitAct
    \/ WriteResultAct
    \/ \E opened \in BOOLEAN : WriterOpenAct(opened)
    \/ \E wrote \in BOOLEAN : WriterTakeAct(wrote)
    \/ \E stopped \in BOOLEAN : WriterEndAct(stopped)

NextGraph ==
    \/ NextGraphProgram
    \/ StopAct

SpecGraph == InitGraph /\ [][NextGraph]_vars

\* every goroutine that can take a step is scheduled; no signal is promised
SpecGraphLive == SpecGraph /\ WF_vars(NextGraphProgram)

----------------------------------------------------------------------------
(* Specification of the evaluation of records: a worker of cmd/graph calls  *)
(* BuildGameRecord for one record after the other, with its session and     *)
(* its evalCache                                                            *)

\* the number of records a worker evaluates
MaxBuilds == 2

\* two Pawn pushes, the two Kings stepping forth and back, two more Pawn
\* pushes
Pawn76 == Entry(FALSE, 7, 6, <<"fu">>, "", FALSE, <<7, 7>>)
Pawn34 == Entry(FALSE, 3, 4, <<"fu">>, "", FALSE, <<3, 3>>)
Pawn26 == Entry(FALSE, 2, 6, <<"fu">>, "", FALSE, <<2, 7>>)
Pawn84 == Entry(FALSE, 8, 4, <<"fu">>, "", FALSE, <<8, 3>>)
KingSteps ==
    << Entry(FALSE, 5, 8, <<"gyoku">>, "", FALSE, <<5, 9>>),
       Entry(FALSE, 5, 2, <<"gyoku">>, "", FALSE, <<5, 1>>),
       Entry(FALSE, 5, 9, <<"gyoku">>, "", FALSE, <<5, 8>>),
       Entry(FALSE, 5, 1, <<"gyoku">>, "", FALSE, <<5, 2>>) >>

\* a game of 32 moves whose positions repeat from the sixth move on, up to
\* the two Pawn pushes at the indices 30 and 31
LongEntries ==
    <<Pawn76, Pawn34>> \o [i \in 1..(CacheLimit - 2) |-> KingSteps[((i - 1) % 4) + 1]]
    \o <<Pawn26, Pawn84>>

\* a Pawn moved from an empty square
PawnFromEmpty == Entry(FALSE, 5, 5, <<"fu">>, "", FALSE, <<5, 6>>)

\* the Bishops exchanged on 2b, and the Bishop in hand dropped
BishopExchange ==
    << Entry(FALSE, 2, 2, <<"kaku">>, "nari", FALSE, <<8, 8>>),
       Entry(TRUE, 0, 0, <<"gin">>, "", FALSE, <<3, 1>>),
       Entry(FALSE, 5, 5, <<"kaku">>, "", TRUE, <<>>) >>

\* the records: the long game, its first seven moves, the long game with
\* the Pawn pushes first, a game whose second move ApplyMove refuses, a
\* game ended by a foul, and a game with pieces in hand
EvalRecords ==
    { Record("even", LongEntries, <<"tou", "ryou">>, TRUE),
      Record("even", SubSeq(LongEntries, 1, 7), <<>>, FALSE),
      Record("even", <<Pawn26, Pawn84>> \o SubSeq(LongEntries, 1, 6), <<"tou", "ryou">>, TRUE),
      Record("even", <<Pawn76, PawnFromEmpty>>, <<"tou", "ryou">>, TRUE),
      Record("even", SubSeq(LongEntries, 1, 4), <<"han", "soku", "ma", "ke">>, TRUE),
      Record("even", <<Pawn76, Pawn34>> \o BishopExchange, <<"tou", "ryou">>, TRUE) }

\* the replies of an engine to a go command
MateReply == << <<"info", "score", "mate", "+3">>, <<"bestmove", "7g7f">> >>
LossReply ==
    << <<"info", "depth", "1">>, <<"info", "depth", "2", "score", "cp", "-120">>,
       <<"bestmove", "7g7f">> >>
BoundReply == << <<"info", "score", "lowerbound", "35">>, <<"bestmove", "7g7f">> >>
BoundAfterReply ==
    << <<"info", "score", "cp", "0">>, <<"info", "score", "lowerbound", "35">>,
       <<"bestmove", "7g7f">> >>

\* the engines: one whose scores change from search to search, one that
\* writes a score of another kind after its score, one whose third search
\* ends without score, one that closes its stdout in its second search, and
\* one whose context is done before the fifth move
Engines ==
    { Engine(<<ScoredReply, MateReply, LossReply>>, -1),
      Engine(<<BoundAfterReply>>, -1),
      Engine(<<ScoredReply, MateReply, BoundReply>>, -1),
      Engine(<<ScoredReply, <<>>>>, -1),
      Engine(<<ScoredReply, MateReply>>, 4) }

InitEval ==
    /\ heap = [r \in Refs |-> EmptyHands]
    /\ pos = AtRef(ZeroPosition, RefPos)
    /\ clone = AtRef(ZeroPosition, RefClone)
    /\ hasClone = FALSE
    /\ err = NoErr
    /\ last = NoCall
    /\ calls = 0
    /\ succ = [pos |-> 0, clone |-> 0]
    /\ fail = [pos |-> 0, clone |-> 0]
    /\ b = [initial |-> AtRef(ZeroPosition, RefInitial), moves |-> <<>>, foulEnd |-> FALSE]
    /\ sfenRes = NoSfenRes
    /\ packRes = NoPackRes
    /\ unpackRes = NoUnpackRes
    /\ legal = NoLegalCall
    /\ kif = NoRecord
    /\ \E engine \in Engines : game = [NoGame EXCEPT !.engine = engine]
    /\ textRes = NoTextRes
    /\ session = NoSession
    /\ graph = NoGraph

\* record, err := cute.BuildGameRecord(ctx, path, session, moveTimeMs,
\* evalCache): the cache is the one the earlier calls left
BuildGameRecordCachedAct(record) ==
    /\ game.builds < MaxBuilds
    /\ kif' = [NoRecord EXCEPT !.record = record]
    /\ \E out \in {BuildGameRecord(RecordLines(record), game.engine, game.cache)} :
           game' = [called |-> TRUE, engineOk |-> TRUE, moveCount |-> out.moveCount,
                    evals |-> out.evals, moveEvals |-> out.moveEvals,
                    applied |-> out.applied, result |-> out.result,
                    errMove |-> out.errMove, err |-> out.err, sent |-> out.sent,
                    cache |-> out.cache, steps |-> out.steps, builds |-> game.builds + 1,
                    before |-> game.cache, engine |-> game.engine]
    /\ UNCHANGED <<heap, pos, clone, hasClone, err, last, calls, succ, fail, b, sfenRes,
                   packRes, unpackRes, legal, textRes, session, graph>>

NextEval == \E record \in EvalRecords : BuildGameRecordCachedAct(record)

SpecEval == InitEval /\ [][NextEval]_vars

----------------------------------------------------------------------------
(* Vocabulary of the properties *)

\* the position under test and its clone, hands read through the heap
View == Deref(heap, pos)
CloneView == Deref(heap, clone)

Other(c) == IF c = Black THEN White ELSE Black

\* the cell of a Position value at a square of the board
CellAt(p, s) == p.board[s.rank - 1][s.file - 1]

\* A step is an ApplyMove call exactly when it counts one: `last'` then names
\* the receiver and the move text, Pre and Post are the receiver before and
\* after the call, and Parsed is the move the text stands for.
Called == calls' = calls + 1
Pre == IF last'.target = "clone" THEN Deref(heap, clone) ELSE Deref(heap, pos)
Post == IF last'.target = "clone" THEN Deref(heap', clone') ELSE Deref(heap', pos')
Parsed == parseUSIMove(last'.move)
BoardMoveCalled == Called /\ Parsed.err = NoErr /\ ~Parsed.move.drop
DropCalled == Called /\ Parsed.err = NoErr /\ Parsed.move.drop

\* the side to move after n successful calls from the standard layout
TurnAfter(n) == IF n % 2 = 0 THEN Black ELSE White

KingsOnBoard(p, c) ==
    { sq \in 0..80 : LET piece == p.board[sq \div 9][sq % 9]
                     IN  piece.kind = "K" /\ piece.color = c }

WellFormed(p) ==
    /\ \A c \in Colors : Cardinality(KingsOnBoard(p, c)) = 1
    /\ \A r \in 0..8 : \A f \in 0..8 :
          p.board[r][f] = NoPiece \/ p.board[r][f].kind \in Kinds
    /\ \A c \in Colors : \A k \in Kinds : p.hands[c][k] >= 0

NoPromotedKingOrGold(p) ==
    \A r \in 0..8 : \A f \in 0..8 :
        ~(p.board[r][f].kind \in {"K", "G"} /\ p.board[r][f].promoted)

----------------------------------------------------------------------------
(* Properties of Position.ApplyMove and Position.Clone, under Spec *)

\* C2: in every position reached from the standard layout by successful
\* ApplyMove calls only, each side has exactly one King on the board, every
\* cell is empty or holds one piece, and every hand count is non-negative.
\* ApplyMove accepts a move onto the opposing King, so this fails.
C2_OneKingPerSide ==
    /\ fail.pos = 0 => WellFormed(View)
    /\ (hasClone /\ fail.clone = 0) => WellFormed(CloneView)

\* C3: a drop fails with "no piece in hand" when the side to move holds none
\* of the kind, else with "drop destination occupied" when the target cell is
\* not empty; otherwise it takes exactly one of the kind from that side's
\* hand, puts an unpromoted piece of the kind and of the mover's color on the
\* target, changes nothing else on the board, and toggles the side to move.
C3_DropContract ==
    [][ DropCalled =>
          LET kind == Parsed.move.piece
              to == Parsed.move.to
              me == Pre.turn
          IN  IF HandCount(Pre.hands[me], kind) = 0 THEN err' = "no piece in hand"
              ELSE IF CellAt(Pre, to) # NoPiece THEN err' = "drop destination occupied"
              ELSE /\ err' = NoErr
                   /\ Post.hands = [Pre.hands EXCEPT ![me][kind] = @ - 1]
                   /\ Post.board = [Pre.board EXCEPT ![to.rank - 1][to.file - 1] =
                                                       Piece(kind, me, FALSE)]
                   /\ Post.turn = Other(me) ]_vars

\* a drop has succeeded: the Bishop taken on 2b stands unpromoted on 5e
C3_Witness ==
    /\ last = [target |-> "pos", move |-> <<"B", "*", "5", "e">>]
    /\ err = NoErr
    /\ CellAt(View, Square(5, 5)) = Piece("B", Black, FALSE)
    /\ View.hands[Black]["B"] = 0

\* C4: a board move fails with "no piece at source" if the source is empty,
\* else with "moving opponent piece" if the source piece is not of the side
\* to move, else with "capturing own piece" if the destination holds a piece
\* of the mover's color (so also when from = to); in every other case that
\* does not promote a King or Gold it succeeds: the piece stands on the
\* destination, the source is empty and no other cell has changed.
C4_BoardMoveContract ==
    [][ BoardMoveCalled =>
          LET from == Parsed.move.from
              to == Parsed.move.to
              src == CellAt(Pre, from)
              dst == CellAt(Pre, to)
              me == Pre.turn
          IN  IF src = NoPiece THEN err' = "no piece at source"
              ELSE IF src.color # me THEN err' = "moving opponent piece"
              ELSE IF dst # NoPiece /\ dst.color = me THEN err' = "capturing own piece"
              ELSE IF Parsed.move.promote /\ src.kind \in {"K", "G"} THEN TRUE
              ELSE /\ err' = NoErr
                   /\ from # to
                   /\ CellAt(Post, from) = NoPiece
                   /\ CellAt(Post, to).kind = src.kind
                   /\ CellAt(Post, to).color = src.color
                   /\ ~Parsed.move.promote => CellAt(Post, to) = src
                   /\ Post.board = [Pre.board EXCEPT
                                       ![from.rank - 1][from.file - 1] = NoPiece,
                                       ![to.rank - 1][to.file - 1] = CellAt(Post, to)] ]_vars

\* a board move has succeeded: the Silver of 3a stands on 2b and 3a is empty
C4_Witness ==
    /\ last = [target |-> "pos", move |-> <<"3", "a", "2", "b">>]
    /\ err = NoErr
    /\ CellAt(View, Square(2, 2)) = Piece("S", White, FALSE)
    /\ CellAt(View, Square(3, 1)) = NoPiece

\* C5: a successful board move onto a cell that holds a piece takes an
\* opposing piece and adds exactly one of its kind (the hand has no promoted
\* kinds) to the mover's hand, every other hand count of either side staying
\* as it was; a successful board move onto an empty cell changes no hand
\* count; and a piece dropped from a hand stands unpromoted.
C5_CaptureToHand ==
    [][ /\ (BoardMoveCalled /\ err' = NoErr) =>
             LET dst == CellAt(Pre, Parsed.move.to)
                 me == Pre.turn
             IN  IF dst # NoPiece
                 THEN /\ dst.color = Other(me)
                      /\ Post.hands = [Pre.hands EXCEPT ![me][dst.kind] = @ + 1]
                      /\ Post.hands[Other(me)] = Pre.hands[Other(me)]
                 ELSE Post.hands = Pre.hands
        /\ (DropCalled /\ err' = NoErr) => ~CellAt(Post, Parsed.move.to).promoted ]_vars

\* White's Silver has taken the promoted Bishop on 2b: White holds one
\* Bishop, and Black still holds the one taken before
C5_Witness ==
    /\ last = [target |-> "pos", move |-> <<"3", "a", "2", "b">>]
    /\ err = NoErr
    /\ succ.pos = 2
    /\ View.hands[White]["B"] = 1
    /\ View.hands[Black]["B"] = 1

\* C6: a board move with the promotion flag that passes the source, mover and
\* destination checks fails with "cannot promote king or gold" when the
\* moving piece is a King or Gold and succeeds for every other kind, the
\* moved piece standing promoted on the destination; and a call on a position
\* without a promoted King or Gold leaves it without one.
C6_PromotionOfKingOrGold ==
    [][ /\ (BoardMoveCalled /\ Parsed.move.promote) =>
             LET src == CellAt(Pre, Parsed.move.from)
                 dst == CellAt(Pre, Parsed.move.to)
                 me == Pre.turn
             IN  (src # NoPiece /\ src.color = me /\ ~(dst # NoPiece /\ dst.color = me)) =>
                   IF src.kind \in {"K", "G"}
                   THEN err' = "cannot promote king or gold"
                   ELSE /\ err' = NoErr
                        /\ CellAt(Post, Parsed.move.to) = Piece(src.kind, src.color, TRUE)
        /\ (Called /\ NoPromotedKingOrGold(Pre)) => NoPromotedKingOrGold(Post) ]_vars

\* the promotion of the Gold of 4i has been refused
C6_Witness ==
    /\ last = [target |-> "pos", move |-> <<"4", "i", "4", "h", "+">>]
    /\ err = "cannot promote king or gold"
    /\ NoPromotedKingOrGold(View)

\* C7: a successful ApplyMove hands the turn to the other side, a failing
\* one leaves the side to move as it was, and after every call the side to
\* move is the initial side flipped once per successful call.
C7_TurnToggles ==
    [][ Called =>
          /\ err' = NoErr => Post.turn = Other(Pre.turn)
          /\ err' # NoErr => Post.turn = Pre.turn
          /\ Post.turn = TurnAfter(IF last'.target = "clone" THEN succ'.clone
                                   ELSE succ'.pos) ]_vars

\* two calls have succeeded and the third has failed: Black is to move again
C7_Witness ==
    /\ last.target = "pos"
    /\ succ.pos = 2
    /\ fail.pos = 1
    /\ err # NoErr
    /\ View.turn = Black

\* C9: Clone returns a position equal to the original in board, hands and
\* side to move and leaves the original as it is; an ApplyMove call on the
\* clone, successful or not, leaves the original's board, hands and side to
\* move unchanged, and a call on the original leaves the clone's unchanged.
\* (A step of Spec that is not an ApplyMove call is a Clone call.)
C9_CloneIndependent ==
    [][ /\ ~Called => (hasClone' /\ CloneView' = View' /\ View' = View)
        /\ (Called /\ last'.target = "clone") => View' = View
        /\ (Called /\ last'.target = "pos" /\ hasClone) => CloneView' = CloneView ]_vars

\* a capture has succeeded on the clone, whose hands now differ from the
\* original's
C9_Witness ==
    /\ hasClone
    /\ last.target = "clone"
    /\ err = NoErr
    /\ CloneView.hands # View.hands
    /\ CloneView.board # View.board

----------------------------------------------------------------------------
(* Properties of the codec, under SpecCodec *)

HasBothKings(p) == \A c \in Colors : Cardinality(KingsOnBoard(p, c)) = 1

\* the length of the code of a kind in a code table
CodeLen(codes, kind) ==
    LET i == CHOOSE i \in 1..Len(codes) : codes[i].kind = kind
    IN  codes[i].bitLen

\* the bits a square other than a King's takes: the code of its kind, and
\* for a piece its color and, for a promotable kind, its promotion bit
SquareBits(piece) ==
    IF piece = NoPiece THEN CodeLen(boardCodes, "")
    ELSE CodeLen(boardCodes, piece.kind) + 1 + (IF isPromotable(piece.kind) THEN 1 ELSE 0)

RECURSIVE BoardBits(_, _, _)
BoardBits(p, lo, hi) ==
    IF lo > hi THEN 0
    ELSE IF lo = hi
         THEN (IF p.board[lo \div 9][lo % 9].kind = "K" THEN 0
               ELSE SquareBits(p.board[lo \div 9][lo % 9]))
    ELSE BoardBits(p, lo, (lo + hi) \div 2) + BoardBits(p, (lo + hi) \div 2 + 1, hi)

RECURSIVE HandBits(_, _, _)
HandBits(p, c, i) ==
    IF i > Len(PackHandKinds) THEN 0
    ELSE LET kind == PackHandKinds[i]
         IN  p.hands[c][kind]
               * (CodeLen(handCodes, kind) + 1 + (IF isPromotable(kind) THEN 1 ELSE 0))
             + HandBits(p, c, i + 1)

\* the length of the encoding of a position with one King per side: the turn
\* bit, two 7-bit King indices, the 79 other squares, the hand entries
EncodedLength(p) == 1 + 7 + 7 + BoardBits(p, 0, 80) + HandBits(p, Black, 1) + HandBits(p, White, 1)

\* the Packed256 was unpacked as PackPosition256 returned it
Unaltered == unpackRes.called /\ unpackRes.flip = -1 /\ ~unpackRes.sameKings

\* C1: for every position reached from the standard layout by successful
\* ApplyMove calls only, PackPosition256 succeeds, and UnpackPosition256 of
\* what it returned gives a position with the same ToSFEN text at the same
\* move number.  A position whose King has been taken is reached that way and
\* PackPosition256 refuses it, so this fails.
C1_RoundTrip ==
    /\ (packRes.called /\ fail.pos = 0) => packRes.err = NoErr
    /\ (Unaltered /\ fail.pos = 0) =>
          /\ unpackRes.err = NoErr
          /\ ~unpackRes.panic
          /\ ToSFEN(unpackRes.pos, packRes.moveNumber)
               = ToSFEN(packRes.input, packRes.moveNumber)

\* What does hold of the round trip: a position that PackPosition256 accepts
\* comes back with the same ToSFEN text, and it accepts every position
\* reached by successful calls in which both Kings still stand.
RoundTripOfPackedPositions ==
    /\ (packRes.called /\ fail.pos = 0 /\ HasBothKings(packRes.input))
          => packRes.err = NoErr
    /\ Unaltered =>
          /\ unpackRes.err = NoErr
          /\ ~unpackRes.panic
          /\ ToSFEN(unpackRes.pos, packRes.moveNumber)
               = ToSFEN(packRes.input, packRes.moveNumber)

\* C10: PackPosition256 returns a Packed256 only for an encoding of exactly
\* 256 bits and returns an error for an encoding that is shorter or longer;
\* UnpackPosition256 returns an error or returns having consumed exactly 256
\* bits.  UnpackPosition256 panics on a King index above 80, so this fails.
C10_Exactly256Bits ==
    /\ packRes.called =>
          /\ packRes.err = NoErr =>
                /\ packRes.bits = 256
                /\ HasBothKings(packRes.input)
                /\ EncodedLength(packRes.input) = 256
          /\ (HasBothKings(packRes.input) /\ EncodedLength(packRes.input) # 256)
                => packRes.err # NoErr
    /\ unpackRes.called =>
          /\ ~unpackRes.panic
          /\ unpackRes.err = NoErr => unpackRes.read = 256

\* The part of C10 that holds: the length check of PackPosition256, and the
\* length read by an UnpackPosition256 that returns.
LengthChecks ==
    /\ packRes.called =>
          /\ packRes.err = NoErr =>
                /\ packRes.bits = 256
                /\ HasBothKings(packRes.input)
                /\ EncodedLength(packRes.input) = 256
          /\ (HasBothKings(packRes.input) /\ EncodedLength(packRes.input) # 256)
                => packRes.err # NoErr
    /\ (unpackRes.called /\ ~unpackRes.panic /\ unpackRes.err = NoErr)
          => unpackRes.read = 256

\* encodings shorter and longer than 256 bits are refused
ShortEncodingRefused ==
    packRes.called /\ HasBothKings(packRes.input) /\ EncodedLength(packRes.input) < 256
LongEncodingRefused ==
    packRes.called /\ HasBothKings(packRes.input) /\ EncodedLength(packRes.input) > 256

\* the words UnpackPosition256 was given
UnpackInput ==
    IF unpackRes.sameKings THEN SameKings(packRes.words)
    ELSE FlipBit(packRes.words, unpackRes.flip)

\* the 7-bit number whose lowest bit is bit `from` of the first word
KingIndex(words, from) ==
    words[0][from] + 2 * words[0][from + 1] + 4 * words[0][from + 2]
    + 8 * words[0][from + 3] + 16 * words[0][from + 4] + 32 * words[0][from + 5]
    + 64 * words[0][from + 6]

\* the kind of the hand entry PackPosition256 writes last: the last kind of
\* PackHandKinds the last color of PackHandColors holds ("" with empty hands)
LastHeld(p) ==
    LET held == { e \in (1..2) \X (1..7) :
                    HandCount(p.hands[PackHandColors[e[1]]], PackHandKinds[e[2]]) > 0 }
    IN  IF held = {} THEN ""
        ELSE PackHandKinds[(CHOOSE e \in held :
                              \A o \in held : o[1] < e[1] \/ (o[1] = e[1] /\ o[2] <= e[2]))[2]]

\* the last bit of the Packed256 is the promotion bit of a hand entry of a
\* promotable kind, and it was set before unpacking
LastHandEntryPromoted ==
    /\ unpackRes.called /\ ~unpackRes.sameKings /\ unpackRes.flip = 255
    /\ isPromotable(LastHeld(packRes.input))

\* C11: UnpackPosition256 fails with the duplicate-king-square error whenever
\* the two decoded 7-bit King indices are equal, and with the
\* promoted-piece-in-hand error whenever a decoded hand entry of a promotable
\* kind has its promotion bit set (and only after reading a set bit); in both
\* cases no position is returned.
C11_UnpackRefuses ==
    unpackRes.called =>
        /\ KingIndex(UnpackInput, 1) = KingIndex(UnpackInput, 8)
              => /\ unpackRes.err = "kings share square"
                 /\ unpackRes.pos = ZeroPosition /\ ~unpackRes.panic
        /\ unpackRes.err = "kings share square"
              => KingIndex(UnpackInput, 1) = KingIndex(UnpackInput, 8)
        /\ LastHandEntryPromoted
              => /\ unpackRes.err = "promoted piece in hand"
                 /\ unpackRes.pos = ZeroPosition /\ ~unpackRes.panic
        /\ unpackRes.err = "promoted piece in hand"
              => /\ UnpackInput[(unpackRes.read - 1) \div 64][(unpackRes.read - 1) % 64] = 1
                 /\ unpackRes.pos = ZeroPosition

\* an UnpackPosition256 of equal King indices
C11_Witness ==
    /\ unpackRes.called /\ unpackRes.sameKings
    /\ KingIndex(UnpackInput, 1) = KingIndex(UnpackInput, 8)
    /\ unpackRes.err = "kings share square"

\* an UnpackPosition256 of a hand entry with its promotion bit set
PromotedHandEntryRefused ==
    LastHandEntryPromoted /\ unpackRes.err = "promoted piece in hand"

----------------------------------------------------------------------------
(* Properties of Board.SFENAt, under SpecBoard *)

\* The first n moves of a move list applied one after another to a Position
\* value, from move i + 1 on: the position reached, or the 1-based number of
\* the first move ApplyMove refuses, with its error.
RECURSIVE Replayed(_, _, _, _)
Replayed(p, moves, i, n) ==
    IF i >= n THEN [pos |-> p, at |-> 0, err |-> NoErr]
    ELSE LET out == ApplyMove([r \in Refs |-> p.hands], AtRef(p, RefPos), moves[i + 1])
         IN  IF out.err # NoErr THEN [pos |-> p, at |-> i + 1, err |-> out.err]
             ELSE Replayed(Deref(out.heap, out.pos), moves, i + 1, n)

\* every step of SpecBoard is an SFENAt call: it leaves the Board's move list
\* and initial position as they were
BoardKept ==
    /\ b' = b
    /\ Deref(heap', b'.initial) = Deref(heap, b.initial)
    /\ sfenRes'.called

OutOfRange == sfenRes'.move < 0 \/ sfenRes'.move > Len(b.moves)

\* C8 as stated: whatever calls came before, SFENAt(i) with 0 <= i <=
\* MoveCount returns the text of the initial position with the first i moves
\* applied and move number i + 1; the Board's initial position and move list
\* are not modified; SFENAt(i) with i out of range returns "move out of
\* range".  A move list may hold a move that ApplyMove refuses, and SFENAt
\* then returns that error, so this fails.
C8_SFENAtAsStated ==
    [][ /\ BoardKept
        /\ IF OutOfRange THEN sfenRes'.err = "move out of range"
           ELSE /\ sfenRes'.err = NoErr
                /\ LET played == Replayed(Deref(heap, b.initial), b.moves, 0, sfenRes'.move)
                   IN  played.err = NoErr =>
                          sfenRes'.text = ToSFEN(played.pos, sfenRes'.move + 1) ]_vars

\* C8, amended: whatever calls came before, SFENAt(i) with 0 <= i <=
\* MoveCount returns the text of the initial position with the first i moves
\* applied and move number i + 1 when ApplyMove accepts each of these moves
\* in turn, and otherwise returns no text and the error of the first move it
\* refuses, as "move N"; the Board's initial position and move list are not
\* modified; SFENAt(i) with i out of range returns "move out of range".
C8_SFENAtReplays ==
    [][ /\ BoardKept
        /\ IF OutOfRange
           THEN sfenRes'.err = "move out of range" /\ sfenRes'.text = <<>>
           ELSE LET played == Replayed(Deref(heap, b.initial), b.moves, 0, sfenRes'.move)
                IN  IF played.err = NoErr
                    THEN /\ sfenRes'.err = NoErr
                         /\ sfenRes'.text = ToSFEN(played.pos, sfenRes'.move + 1)
                    ELSE /\ sfenRes'.err = played.err
                         /\ sfenRes'.errMove = played.at
                         /\ sfenRes'.text = <<>> ]_vars

\* SFENAt has returned the text after the last of three moves that apply
C8_Witness ==
    /\ b.moves = << <<"7","g","7","f">>, <<"3","c","3","d">>, <<"8","h","2","b","+">> >>
    /\ sfenRes.called
    /\ sfenRes.move = 3
    /\ sfenRes.err = NoErr
    /\ sfenRes.text # <<>>
    /\ Deref(heap, b.initial) = StandardPosition

----------------------------------------------------------------------------
(* Properties of check detection and legality, under SpecLegal *)

\* the square of the King of a color
KingSquare(p, color) == CHOOSE s \in Squares : CellAt(p, s) = Piece("K", color, FALSE)

\* the squares strictly between two squares of a file, a rank or a diagonal
Between(x, y) ==
    { s \in Squares :
        /\ s # x /\ s # y
        /\ (s.file - x.file) * (y.rank - x.rank) = (s.rank - x.rank) * (y.file - x.file)
        /\ (x.file <= s.file /\ s.file <= y.file) \/ (y.file <= s.file /\ s.file <= x.file)
        /\ (x.rank <= s.rank /\ s.rank <= y.rank) \/ (y.rank <= s.rank /\ s.rank <= x.rank) }

\* the line of an unpromoted Rook, Bishop or Lance on square `from` holds `to`
OnLineOf(piece, from, to) ==
    /\ from # to
    /\ ~piece.promoted
    /\ \/ piece.kind = "R" /\ (from.file = to.file \/ from.rank = to.rank)
       \/ piece.kind = "B" /\ (from.file - to.file = from.rank - to.rank
                               \/ from.file - to.file = to.rank - from.rank)
       \/ piece.kind = "L" /\ from.file = to.file
                           /\ IF piece.color = Black THEN to.rank < from.rank
                              ELSE to.rank > from.rank

\* the opposing Rooks, Bishops and Lances on a line with the King of color
LinedUp(p, color) ==
    { from \in Squares : /\ CellAt(p, from) # NoPiece
                         /\ CellAt(p, from).color # color
                         /\ OnLineOf(CellAt(p, from), from, KingSquare(p, color)) }

\* one of them has only empty squares between itself and the King
OpenLine(p, color) ==
    \E from \in LinedUp(p, color) :
        \A s \in Between(from, KingSquare(p, color)) : CellAt(p, s) = NoPiece

\* no opposing piece other than an unpromoted Rook, Bishop or Lance stands
\* within a step or a Knight's jump of the King of color
NoStepAttacker(p, color) ==
    \A from \in Squares :
        (/\ CellAt(p, from) # NoPiece
         /\ CellAt(p, from).color # color
         /\ from.file - KingSquare(p, color).file \in -1..1
         /\ from.rank - KingSquare(p, color).rank \in -2..2)
        => CellAt(p, from).kind \in {"R", "B", "L"} /\ ~CellAt(p, from).promoted

\* in SpecLegal only Rooks, Bishops and Lances come near a King
OnlySlidersNear ==
    \A color \in Colors : NoStepAttacker(pos, color) /\ NoStepAttacker(legal.pos, color)

\* C12: IsLegalPosition is true exactly when the King of the side that is not
\* to move is not in check, whether or not the side to move is in check.
C12_LegalIffOtherSideSafe ==
    legal.call = "IsLegalPosition" =>
        /\ NoStepAttacker(legal.pos, Other(legal.pos.turn))
        /\ legal.result = ~OpenLine(legal.pos, Other(legal.pos.turn))

\* a position found legal whose side to move is in check
C12_Witness ==
    /\ legal.call = "IsLegalPosition"
    /\ legal.result
    /\ OpenLine(legal.pos, legal.pos.turn)

\* a position found illegal whose side to move is not in check
IllegalWithMoverSafe ==
    /\ legal.call = "IsLegalPosition"
    /\ ~legal.result
    /\ ~OpenLine(legal.pos, legal.pos.turn)

\* C13: a Rook, Bishop or Lance attacks the opposing King along its line
\* exactly when every square strictly between them is empty: a piece between
\* them removes the check.
C13_SliderChecksIffLineOpen ==
    (legal.call = "IsInCheck" /\ NoStepAttacker(legal.pos, legal.color)) =>
        /\ legal.err = NoErr
        /\ legal.result = OpenLine(legal.pos, legal.color)

\* a Rook, Bishop or Lance on a line with the King, a piece between them, and
\* no check
C13_Witness ==
    /\ legal.call = "IsInCheck"
    /\ ~legal.result
    /\ LinedUp(legal.pos, legal.color) # {}
    /\ \A from \in LinedUp(legal.pos, legal.color) :
           \E s \in Between(from, KingSquare(legal.pos, legal.color)) :
               CellAt(legal.pos, s) # NoPiece

\* a check along an open line
CheckAlongOpenLine ==
    legal.call = "IsInCheck" /\ legal.result /\ OpenLine(legal.pos, legal.color)

----------------------------------------------------------------------------
(* Properties of the notation decoder, under SpecKIF *)

\* the move tokens of the record, and whether BoardFromKIF has returned
Entries == kif.record.entries
Decoding1 == kif.loaded \/ kif.err # NoErr

\* the destination a decoded move text names
DestOf(usi) == SubSeq(usi, 3, 4)

\* the square a record writes as destination, as a move text names it
WrittenDest(e) == <<DigitChars[e.file + 1], LowerChars[e.rank]>>

\* C14: a move token that begins with the same-square marker yields a move
\* whose destination is that of the move decoded just before it (a board
\* move, a drop or a same-square move), and decoding fails when the marker
\* comes before any move.
C14_SameSquare ==
    /\ kif.loaded =>
          /\ Len(b.moves) = Len(Entries)
          /\ \A i \in 1..Len(Entries) :
                IF Entries[i].same
                THEN i > 1 /\ DestOf(b.moves[i]) = DestOf(b.moves[i - 1])
                ELSE DestOf(b.moves[i]) = WrittenDest(Entries[i])
    /\ (Decoding1 /\ Entries[1].same) =>
          /\ ~kif.loaded
          /\ kif.err = "same-square move without previous destination"
          /\ RecordLines(kif.record)[kif.errLine].num = 1

\* a drop, a same-square move after it, and a same-square move after that
C14_Witness ==
    /\ kif.loaded
    /\ Len(Entries) = 3
    /\ Entries[1].drop /\ Entries[2].same /\ Entries[3].same
    /\ DestOf(b.moves[3]) = WrittenDest(Entries[1])

\* a same-square move after a board move; a record that begins with the marker
SameSquareAfterBoardMove ==
    /\ kif.loaded /\ Len(Entries) >= 2 /\ ~Entries[1].drop /\ Entries[2].same
    /\ DestOf(b.moves[2]) = WrittenDest(Entries[1])
SameSquareFirstRefused ==
    /\ Entries[1].same
    /\ kif.err = "same-square move without previous destination"

\* the glyph is one of the compound glyphs (the promotion rune and a kind)
Compound(glyph) == Len(glyph) = 2 /\ glyph[1] = "nari"

\* the glyph denotes a promoted piece: a compound glyph or a single promoted
\* glyph
PromotedGlyph(glyph) == Compound(glyph) \/ glyph \in {<<"to">>, <<"uma">>, <<"ryu">>, <<"tatsu">>}

\* the move text carries the promotion flag
Flagged(usi) == usi[Len(usi)] = "+"

\* C15: the move of a token without drop marker carries the promotion flag
\* exactly when the token has no no-promotion marker and has the promotion
\* marker or a compound glyph; with the no-promotion marker it never does.
C15_PromotionFlag ==
    kif.loaded =>
        \A i \in 1..Len(Entries) :
            ~Entries[i].drop =>
                (Flagged(b.moves[i]) <=>
                    /\ Entries[i].mark # "not"
                    /\ Entries[i].mark = "nari" \/ Compound(Entries[i].glyph))

\* a compound glyph with the no-promotion marker, decoded without the flag
C15_Witness ==
    /\ kif.loaded
    /\ Len(Entries) = 1
    /\ ~Entries[1].drop /\ Entries[1].mark = "not" /\ Compound(Entries[1].glyph)
    /\ ~Flagged(b.moves[1])

\* a compound glyph without marker, and a plain glyph with the promotion
\* marker, decoded with the flag
CompoundGlyphFlagged ==
    /\ kif.loaded /\ Len(Entries) = 1 /\ ~Entries[1].drop
    /\ Entries[1].mark = "" /\ Compound(Entries[1].glyph) /\ Flagged(b.moves[1])
MarkedGlyphFlagged ==
    /\ kif.loaded /\ Len(Entries) = 1 /\ ~Entries[1].drop
    /\ Entries[1].mark = "nari" /\ ~PromotedGlyph(Entries[1].glyph) /\ Flagged(b.moves[1])

\* C16: a token with the drop marker is refused with the cannot-drop-promoted
\* error whenever its glyph denotes a promoted piece, single or compound;
\* only a token with an unpromoted glyph yields a drop.  The code accepts the
\* compound glyphs, so this fails.
C16_DropOfPromoted ==
    (Decoding1 /\ Len(Entries) = 1 /\ Entries[1].drop) =>
        IF PromotedGlyph(Entries[1].glyph)
        THEN ~kif.loaded /\ kif.err = "cannot drop promoted piece"
        ELSE kif.loaded /\ b.moves[1][2] = "*"

\* The part of C16 that holds: the single promoted glyphs are refused and
\* the unpromoted glyphs yield a drop.
DropOfSingleGlyph ==
    (Decoding1 /\ Len(Entries) = 1 /\ Entries[1].drop /\ ~Compound(Entries[1].glyph)) =>
        IF PromotedGlyph(Entries[1].glyph)
        THEN ~kif.loaded /\ kif.err = "cannot drop promoted piece"
        ELSE kif.loaded /\ b.moves[1][2] = "*"

\* a drop of a single promoted glyph, refused
DropOfPromotedRefused ==
    /\ Len(Entries) = 1 /\ Entries[1].drop /\ PromotedGlyph(Entries[1].glyph)
    /\ kif.err = "cannot drop promoted piece"

\* the number written on the terminal line of the record
TerminalPly == Len(Entries) + 1

\* Black wins when the number is odd, White otherwise
WinnerAt(ply) == IF ply \in {1, 3, 5, 7, 9} THEN "sente_win" ELSE "gote_win"

CheckmateByBlack ==
    /\ game.called /\ game.err = NoErr /\ kif.record.terminal = <<"tsu", "mi">>
    /\ TerminalPly = 3 /\ game.result = "sente_win"
CheckmateByWhite ==
    /\ game.called /\ game.err = NoErr /\ kif.record.terminal = <<"tsu", "mi">>
    /\ TerminalPly = 2 /\ game.result = "gote_win"

\* the record ends with one of the two illegal-move tokens
FoulRecord ==
    kif.record.terminal \in {<<"han", "soku", "ka", "chi">>, <<"han", "soku", "ma", "ke">>}

\* C18: IsFoulEnd is true exactly when the terminal token of the record is
\* one of the two illegal-move tokens, and BuildGameRecord then applies and
\* scores the moves but the last and reports their number as MoveCount.
C18_FoulEnd ==
    /\ kif.loaded => (b.foulEnd <=> FoulRecord)
    /\ (game.called /\ FoulRecord) => game.applied <= Len(Entries) - 1
    /\ (game.called /\ game.err = NoErr) =>
          /\ game.moveCount = IF FoulRecord THEN Len(Entries) - 1 ELSE Len(Entries)
          /\ game.evals = game.moveCount
          /\ game.applied = game.moveCount

\* a record that ends with an illegal-move token after a last move ApplyMove
\* would refuse: the Board has the foul end, the game record leaves out the move
C18_Witness ==
    /\ kif.loaded /\ b.foulEnd /\ FoulRecord
    /\ Len(Entries) = 2 /\ Entries[2].same
    /\ game.called /\ game.err = NoErr
    /\ game.moveCount = 1 /\ game.applied = 1

\* the same moves without the illegal-move token: the last move is applied
\* and refused
LastMoveRefused ==
    /\ ~FoulRecord /\ Len(Entries) = 2 /\ Entries[2].same
    /\ game.called /\ game.errMove = 2

\* C20: the initial position of a record with the even-handicap marker is
\* the standard layout, whatever board rows and turn line the record holds,
\* and SFENAt(0) is the text of the standard layout with move number 1.
C20_EvenHandicap ==
    (kif.loaded /\ kif.record.header \in {"even", "rows"}) =>
        /\ Deref(heap, b.initial) = StandardPosition
        /\ CellAt(Deref(heap, b.initial), Square(5, 9)) = Piece("K", Black, FALSE)
        /\ CellAt(Deref(heap, b.initial), Square(2, 2)) = Piece("B", White, FALSE)
        /\ (sfenRes.called /\ sfenRes.move = 0) =>
              /\ sfenRes.err = NoErr
              /\ sfenRes.text = standardSFEN

\* a record with the marker, a board row and a turn line, asked for SFENAt(0)
C20_Witness ==
    /\ kif.loaded /\ kif.record.header = "rows"
    /\ sfenRes.called /\ sfenRes.move = 0
    /\ sfenRes.text = standardSFEN

\* a record without the marker and without board lines is refused
NoBoardDefinition ==
    kif.record.header \in {"other", "none"} /\ kif.err = "no board definition found"

----------------------------------------------------------------------------
(* Properties of the canonical text, under SpecText *)

\* q has the board, the hand counts and the side to move of p
SamePosition(q, p) ==
    /\ \A r \in 0..8 : \A f \in 0..8 : q.board[r][f] = p.board[r][f]
    /\ \A c \in Colors : \A k \in Kinds :
          HandCount(q.hands[c], k) = HandCount(p.hands[c], k)
    /\ q.turn = p.turn

\* a side holds a King in hand
HoldsKing(p) == \E c \in Colors : HandCount(p.hands[c], "K") > 0

\* C19: for every Position P and move number n, reading the text P.ToSFEN(n)
\* succeeds and yields the board, the hand counts of both sides and the side
\* to move of P.  ApplyMove puts a captured King in hand and ToSFEN does not
\* write it, so this fails.
C19_TextRoundTrip ==
    textRes.called => textRes.err = NoErr /\ SamePosition(textRes.pos, textRes.of)

\* The part of C19 that holds: the round trip of a position without a King
\* in hand.
TextRoundTripWithoutHeldKing ==
    (textRes.called /\ ~HoldsKing(textRes.of)) =>
        textRes.err = NoErr /\ SamePosition(textRes.pos, textRes.of)

\* a position with a promoted piece on the board and pieces in both hands,
\* White to move, written with move number 12 and read back
TextRoundTripOfCaptures ==
    /\ textRes.called /\ textRes.moveNumber = 12 /\ textRes.err = NoErr
    /\ textRes.of.turn = White
    /\ \E r \in 0..8 : \E f \in 0..8 :
          textRes.of.board[r][f] # NoPiece /\ textRes.of.board[r][f].promoted
    /\ HandCount(textRes.of.hands[Black], "B") > 0
    /\ SamePosition(textRes.pos, textRes.of)

\* a position with a King in hand, read back without it
HeldKingLost ==
    /\ textRes.called /\ textRes.err = NoErr
    /\ HandCount(textRes.of.hands[Black], "K") = 1
    /\ HandCount(textRes.pos.hands[Black], "K") = 0

----------------------------------------------------------------------------
(* Properties of refused calls and of the piece counts, under Spec *)

\* C22: an ApplyMove call that returns an error leaves the board, both
\* hands and the side to move of its receiver as they were before the call.
\* applyMove counts the captured piece and empties the source before it
\* refuses the promotion of a King or Gold, so this fails.
C22_ErrorLeavesPosition ==
    [][ (Called /\ err' # NoErr) => Post = Pre ]_vars

\* The part of C22 that holds: every error but the refused promotion leaves
\* the receiver as it was.
EarlyErrorLeavesPosition ==
    [][ (Called /\ err' \notin {NoErr, "cannot promote king or gold"}) => Post = Pre ]_vars

\* What the refused promotion leaves behind: the source is empty, a piece
\* that stood on the destination is counted in the mover's hand and still
\* stands there, and the side to move is the same.
RefusedPromotionLeaves ==
    [][ (Called /\ err' = "cannot promote king or gold") =>
          LET from == Parsed.move.from
              to == Parsed.move.to
              me == Pre.turn
              taken == CellAt(Pre, to)
          IN  /\ Post.board = [Pre.board EXCEPT ![from.rank - 1][from.file - 1] = NoPiece]
              /\ Post.hands = IF taken = NoPiece THEN Pre.hands
                              ELSE [Pre.hands EXCEPT ![me][taken.kind] = @ + 1]
              /\ Post.turn = me ]_vars

\* a promotion of the Gold on 6i onto the Bishop on 2b has been refused: the
\* Gold is gone, the Bishop is on 2b and in Black's hand
RefusedPromotionMutates ==
    /\ last = [target |-> "pos", move |-> <<"6", "i", "2", "b", "+">>]
    /\ err = "cannot promote king or gold"
    /\ CellAt(View, Square(6, 9)) = NoPiece
    /\ CellAt(View, Square(2, 2)) = Piece("B", White, FALSE)
    /\ HandCount(View.hands[Black], "B") = 1

----------------------------------------------------------------------------
(* Properties of the piece counts, under SpecCodec *)

\* the pieces of a kind on the board and in the two hands
OnBoard(p, kind) ==
    Cardinality({ sq \in 0..80 : p.board[sq \div 9][sq % 9] # NoPiece
                                 /\ p.board[sq \div 9][sq % 9].kind = kind })
KindCount(p, kind) ==
    OnBoard(p, kind) + HandCount(p.hands[Black], kind) + HandCount(p.hands[White], kind)

\* the pieces of the standard layout, by kind
StandardCount ==
    [k \in Kinds |-> CASE k = "P" -> 18
                       [] k \in {"L", "N", "S", "G"} -> 4
                       [] OTHER -> 2]

\* a successful ApplyMove keeps the number of pieces of every kind
CountsKept ==
    (Called /\ err' = NoErr) => \A k \in Kinds : KindCount(Post, k) = KindCount(Pre, k)

\* a position reached by successful calls only holds the pieces of the
\* standard layout
CountsOfStandard ==
    fail.pos = 0 => \A k \in Kinds : KindCount(View, k) = StandardCount[k]

\* C23: a successful ApplyMove keeps, for each kind, the number of pieces on
\* the board plus in the two hands, so every position reached from the
\* standard layout by successful calls holds its 40 pieces, and
\* PackPosition256 encodes every such position in the same number of bits.
\* A position whose King has been taken is reached that way and has no
\* encoding, so the last part fails.
C23_PieceCounts ==
    /\ [][CountsKept]_vars
    /\ [](CountsOfStandard)
    /\ []((packRes.called /\ fail.pos = 0) => (packRes.err = NoErr /\ packRes.bits = 256))

\* The part of C23 that holds: the counts, and the length of the encoding of
\* a position reached by successful calls that has its two Kings on the board.
PieceCountsWithKings ==
    /\ [][CountsKept]_vars
    /\ [](CountsOfStandard)
    /\ []((fail.pos = 0 /\ HasBothKings(View)) => EncodedLength(View) = 256)
    /\ []((packRes.called /\ fail.pos = 0 /\ HasBothKings(packRes.input))
             => (packRes.err = NoErr /\ packRes.bits = 256))

\* a position reached by three successful calls, with a promoted piece on
\* the board and a piece in hand, encoded in 256 bits
PackedAfterCaptures ==
    /\ packRes.called /\ packRes.err = NoErr /\ packRes.bits = 256
    /\ fail.pos = 0 /\ succ.pos = 3
    /\ HandCount(packRes.input.hands[Black], "B") = 1
    /\ OnBoard(packRes.input, "B") = 1

\* a position whose King has been taken, refused by PackPosition256
TakenKingRefused ==
    /\ packRes.called /\ fail.pos = 0
    /\ ~HasBothKings(packRes.input)
    /\ packRes.err # NoErr

----------------------------------------------------------------------------
(* Properties of UnpackPosition256 on altered input, under SpecCodec *)

\* the two King indices the Packed256 given to UnpackPosition256 holds
BlackKingIndex == KingIndex(UnpackInput, 1)
WhiteKingIndex == KingIndex(UnpackInput, 8)

\* C24: UnpackPosition256 returns a position or an error for every input and
\* never aborts; a King index outside 0..80 is reported as an error.
\* setPieceAtIndex indexes the board with such an index, so this fails.
C24_UnpackNeverAborts ==
    unpackRes.called =>
        /\ ~unpackRes.panic
        /\ (BlackKingIndex > 80 \/ WhiteKingIndex > 80) => unpackRes.err # NoErr

\* The part of C24 that holds: with both King indices on the board
\* UnpackPosition256 returns, two equal indices are reported, and it aborts
\* exactly when the indices differ and one of them is above 80.
UnpackReturnsOnBoardKings ==
    unpackRes.called =>
        /\ (BlackKingIndex <= 80 /\ WhiteKingIndex <= 80) => ~unpackRes.panic
        /\ BlackKingIndex = WhiteKingIndex =>
              (~unpackRes.panic /\ unpackRes.err = "kings share square")
        /\ unpackRes.panic <=>
              (BlackKingIndex # WhiteKingIndex /\ (BlackKingIndex > 80 \/ WhiteKingIndex > 80))

\* a Black King index above 80: the process aborts; an index altered within
\* the board: UnpackPosition256 returns
KingIndexAborts ==
    unpackRes.called /\ BlackKingIndex > 80 /\ unpackRes.panic
KingIndexOnBoardReturns ==
    /\ unpackRes.called /\ unpackRes.flip \in {5, 10, 14} /\ ~unpackRes.panic
    /\ BlackKingIndex <= 80 /\ WhiteKingIndex <= 80

----------------------------------------------------------------------------
(* Properties of the result of a record, under SpecKIF *)

\* C26: every token that ends the move list is classified as abort, draw,
\* sente_win or gote_win, and the result "unknown" is given only to a record
\* without terminal line.  resultFromTerminal has no case for the two
\* declared-win tokens, so this fails.
C26_TerminalClassified ==
    (game.called /\ game.err = NoErr) =>
        /\ kif.record.terminal \in TerminalTokens =>
              game.result \in {"abort", "draw", "sente_win", "gote_win"}
        /\ game.result = "unknown" => kif.record.terminal = <<>>

\* The part of C26 that holds: the eight tokens resultFromTerminal names are
\* classified, and a record without terminal line has the result "unknown".
NamedTerminalClassified ==
    (game.called /\ game.err = NoErr) =>
        /\ kif.record.terminal \in TerminalTokens \ {<<"nyuu", "gyoku", "ka", "chi">>,
                                                     <<"ka", "chi", "sengen", "gen">>}
              => game.result \in {"abort", "draw", "sente_win", "gote_win"}
        /\ kif.record.terminal = <<>> => game.result = "unknown"

\* a record that ends with a declared-win token, with the result "unknown"
DeclaredWinUnknown ==
    /\ game.called /\ game.err = NoErr
    /\ kif.record.terminal = <<"ka", "chi", "sengen", "gen">>
    /\ game.result = "unknown"

\* a record without terminal line, with the result "unknown"
NoTerminalUnknown ==
    /\ game.called /\ game.err = NoErr
    /\ kif.record.terminal = <<>>
    /\ game.result = "unknown"

----------------------------------------------------------------------------
(* Properties of the move list of a record, under SpecKIFLines *)

\* the move a token with a source square stands for
WrittenMove(e) ==
    <<DigitChars[e.from[1] + 1], LowerChars[e.from[2]]>> \o WrittenDest(e)
    \o (IF e.mark = "nari" THEN <<"+">> ELSE <<>>)
WrittenMoves(es) == [i \in 1..Len(es) |-> WrittenMove(es[i])]

\* C25: the decoded move list holds exactly the moves of the move lines
\* before the terminal line, in their order; the terminal line, which has no
\* clock, ends the list, and no line after it adds a move.  parseKIFMoves
\* does not see a terminal line without clock and goes on, so this fails.
C25_MovesBeforeTerminal ==
    kif.loaded => b.moves = WrittenMoves(Entries)

\* The part of C25 that holds, and what the code does otherwise: a terminal
\* line with a clock ends the list; after a terminal line without clock the
\* moves of the later move lines are added.
MovesBeforeClockedTerminal ==
    kif.loaded =>
        b.moves = IF kif.record.clock THEN WrittenMoves(Entries)
                  ELSE WrittenMoves(Entries) \o WrittenMoves(kif.record.tail)

\* a terminal line with a clock and two move lines after it: the list ends
\* at the terminal line
ClockedTerminalEnds ==
    /\ kif.loaded /\ kif.record.clock
    /\ Len(Entries) = 2 /\ Len(kif.record.tail) = 2
    /\ Len(b.moves) = 2

\* a resignation without clock and one move line after it: the list holds
\* the move of that line
MoveAfterTerminal ==
    /\ kif.loaded /\ ~kif.record.clock
    /\ kif.record.terminal = <<"tou", "ryou">>
    /\ Len(Entries) = 2 /\ Len(kif.record.tail) = 1
    /\ b.moves = <<<<"7", "g", "7", "f">>, <<"3", "c", "3", "d">>, <<"8", "c", "8", "d">>>>

----------------------------------------------------------------------------
(* Properties of Session.Evaluate, under SpecSession *)

\* the info lines that carry a score of kind cp or mate, with their score
ScoredLines ==
    (<<"info", "depth", "2", "score", "cp", "35">> :> Score("cp", 35))
    @@ (<<"info", "score", "mate", "+3">> :> Score("mate", 3))

\* the places of the events with such a line among the events a call took
ScoredIn(seen) == { i \in 1..Len(seen) : seen[i].raw \in DOMAIN ScoredLines }

\* the score of the last of them
LastScore(seen) ==
    ScoredLines[seen[CHOOSE i \in ScoredIn(seen) : \A j \in ScoredIn(seen) : j <= i].raw]

\* the last Evaluate call has returned from its loop on an event
ReturnedOnEvent == session.ret.call > 0 /\ session.ret.err # "context canceled"

BestMoveWithoutScore ==
    /\ session.ret.call > 0 /\ session.ret.err = "no score in engine output"
    /\ Len(session.ret.seen) = 3
    /\ session.ret.seen[2].raw = <<"info", "score", "lowerbound", "35">>
    /\ session.ret.score = ZeroScore

\* C28: the score and the bestmove an Evaluate call returns were written by
\* the engine in answer to the commands of that call, also when an earlier
\* call returned with the error of its context.  The answer to the earlier
\* call stays in the channel and the next call returns it, so this fails.
C28_OwnAnswer ==
    (session.ret.call > 0 /\ session.ret.err = NoErr) =>
        /\ session.ret.moveOf = session.ret.call
        /\ session.ret.scoreOf = session.ret.call

\* The part of C28 that holds: as long as no call has returned with the
\* error of its context, every call returns the answer to its own commands.
OwnAnswerWithoutCancel ==
    (session.ret.call > 0 /\ session.ret.err = NoErr /\ session.cancelled = 0) =>
        /\ session.ret.moveOf = session.ret.call
        /\ session.ret.scoreOf = session.ret.call

\* two calls without cancellation, each with its own answer
SecondOwnAnswer ==
    /\ session.ret.call = 2 /\ session.ret.err = NoErr /\ session.cancelled = 0
    /\ session.ret.moveOf = 2 /\ session.ret.scoreOf = 2

\* the second call returns the score and the bestmove of the first search
StaleAnswer ==
    /\ session.ret.call = 2 /\ session.ret.err = NoErr
    /\ session.ret.moveOf = 1 /\ session.ret.scoreOf = 1

----------------------------------------------------------------------------
(* Properties of the cmd/graph pipeline, under SpecGraphLive *)

Finished == graph.main = "finished"

\* main waits to send a path on jobs and no worker is left to receive it
NoWorkerLeft ==
    /\ graph.main = "enqueue"
    /\ graph.next < graph.files
    /\ AllWorkersDone

\* a worker waits to send on results, the channel is full and WriteParquet
\* has returned
WriterGone ==
    /\ graph.writer = "returned"
    /\ graph.results = graph.workers
    /\ \E i \in 1..graph.workers : graph.w[i] = "send"

\* C29: the pipeline always terminates: whatever the outcome of the workers'
\* start-up, of the processing of each file and of the writer, main finishes
\* enqueueing, wg.Wait returns, results is closed and the writer's result is
\* received.
C29_Terminates == <>Finished

\* every run finishes or comes to one of the two waits above
FinishedOrWaiting == <>(Finished \/ NoWorkerLeft \/ WriterGone)

\* without a signal, neither of the two waits ends
WaitsForever ==
    [][ ((NoWorkerLeft \/ WriterGone) /\ ~graph.stop /\ ~graph'.stop)
            => (~Finished' /\ (NoWorkerLeft' \/ WriterGone')) ]_vars

\* every worker failed to start its session and main waits on jobs
AllStartsFailed == NoWorkerLeft /\ graph.errs = graph.workers /\ ~graph.stop

\* the writer returned before the range and a worker waits on results
WriterFailedEarly == WriterGone /\ graph.written = 0 /\ ~graph.stop

\* main received the writer's result after all files were processed
FinishedAllFiles == Finished /\ graph.processed = graph.files /\ ~graph.stop

----------------------------------------------------------------------------
(* C21: the GameRecord of BuildGameRecord *)

\* C21: a GameRecord that BuildGameRecord returns without error has as many
\* MoveEvals as its MoveCount, the i-th of them (counted from 0) with Ply
\* i + 1 and every one with ScoreType "cp" or "mate"; when a move cannot be
\* applied or evaluated no record is returned: the record is the zero one,
\* without any move evaluated.
C21_Record ==
    game.called =>
        IF game.err = NoErr
        THEN /\ Len(game.moveEvals) = game.moveCount
             /\ \A i \in 1..Len(game.moveEvals) :
                    /\ game.moveEvals[i].ply = i
                    /\ game.moveEvals[i].scoreType \in {"cp", "mate"}
        ELSE game.moveCount = 0 /\ game.moveEvals = <<>> /\ game.result = ""

\* a record of more than CacheLimit moves is returned, with scores of both
\* kinds
C21_Witness ==
    /\ game.called /\ game.err = NoErr
    /\ game.moveCount > CacheLimit
    /\ Len(game.moveEvals) = game.moveCount
    /\ \E i, j \in 1..Len(game.moveEvals) :
           game.moveEvals[i].scoreType = "cp" /\ game.moveEvals[j].scoreType = "mate"

\* a call fails after some of its moves were evaluated: on a move that
\* ApplyMove refuses, and on a search that ends without score
C21_MoveRefused ==
    game.called /\ game.errMove = 2 /\ Len(game.steps) = 1 /\ game.applied = 2
C21_NoScore ==
    game.called /\ game.err = "no score in engine output" /\ Len(game.steps) >= 2

----------------------------------------------------------------------------
(* C30: the evaluation cache of BuildGameRecord *)

\* the keys the cache holds when the k-th move evaluated (counted from 1)
\* is looked up, were entries added for the moves of index below CacheLimit
\* only: those it held at the call and those of the moves before
KeysAt(k) ==
    DOMAIN game.before
    \cup {game.steps[j].key : j \in 1..(IF k - 1 < CacheLimit THEN k - 1 ELSE CacheLimit)}

\* the score the cache then holds under key: the one it held at the call,
\* or the score of the first move with that key
ScoreAt(key) ==
    IF key \in DOMAIN game.before THEN game.before[key]
    ELSE game.steps[CHOOSE j \in 1..Len(game.steps) :
                        /\ game.steps[j].key = key
                        /\ \A l \in 1..(j - 1) : game.steps[l].key # key].score

\* the k-th move evaluated was sent to the engine
Sent(k) == \E n \in 1..Len(game.sent) : game.sent[n].index = k - 1

SameKeyed(p, q) == p.board = q.board /\ p.turn = q.turn /\ p.hands = q.hands

\* C30: the cache of BuildGameRecord is keyed by board, side to move and
\* hands, the move number left out: two moves of a call have the same key
\* exactly when they lead to the same position; a move whose key is in the
\* cache is not sent to the engine and gets the cached score, any other
\* move is sent; and entries are added for moves of index below 30 only, so
\* that the call leaves the cache with the keys it had and those of its
\* first 30 moves.
C30_Cache ==
    game.called =>
        /\ \A j, k \in 1..Len(game.steps) :
               SameKeyed(game.steps[j].pos, game.steps[k].pos)
                   <=> game.steps[j].key = game.steps[k].key
        /\ \A k \in 1..Len(game.steps) :
               IF game.steps[k].key \in KeysAt(k)
               THEN ~Sent(k) /\ game.steps[k].score = ScoreAt(game.steps[k].key)
               ELSE Sent(k)
        /\ DOMAIN game.cache = KeysAt(Len(game.steps) + 1)
        /\ \A key \in DOMAIN game.cache : game.cache[key] = ScoreAt(key)

\* the long game is evaluated a second time on the same cache: its first
\* CacheLimit moves are answered from the cache, and the two moves after
\* them, whose positions the first call evaluated without adding them, are
\* sent again
C30_Witness ==
    /\ game.called /\ game.err = NoErr /\ game.builds = 2
    /\ Len(game.steps) = CacheLimit + 2
    /\ \A k \in 1..CacheLimit : game.steps[k].key \in DOMAIN game.before
    /\ {game.sent[n].index : n \in 1..Len(game.sent)} = {CacheLimit, CacheLimit + 1}
    /\ DOMAIN game.cache = DOMAIN game.before

\* within one call a position met again at another move number is answered
\* from the cache
C30_Repeated ==
    /\ game.called /\ game.builds = 1
    /\ \E j, k \in 1..Len(game.steps) :
           j < k /\ game.steps[j].key = game.steps[k].key /\ ~Sent(k) /\ Sent(j)

\* positions with pieces in hand are evaluated
C30_Hands ==
    /\ game.called /\ game.builds = 1
    /\ \E k \in 1..Len(game.steps) : game.steps[k].pos.hands # EmptyHands

====
